---- MODULE Spec2Model ----
(***************************************************************************)
(* A model of the passive learning core of leonbohn/ralf:                  *)
(*   - dpainf (omega-sprout), crates/automata-learning/src/passive/dpainf  *)
(*   - DPA acceptance, normalisation, language equivalence and prefix      *)
(*     partition, crates/automata/src/automaton/omega/parity.rs            *)
(*   - Scc::maximal_loop_from, crates/automata/src/ts/connected_components *)
(*   - Shrinkable::trim_from, crates/automata/src/ts/shrinkable.rs         *)
(* A transition system is a record [states, delta]; delta is a set of      *)
(* edges <<source, symbol, color, target>>.                                *)
(***************************************************************************)
EXTENDS Integers, Sequences, FiniteSets, TLC

VARIABLES
    mode,       \* which operation of the library this behaviour exercises
    input,      \* dpainf: [primary, extra, allow, timeout], the arguments
    cong,       \* dpainf: the right congruence built so far
    queue,      \* dpainf: FIFO of missing transitions <<q, a>>
    pc,         \* dpainf: position in the function body
    cur,        \* dpainf: [source, sym, target] of the outer/inner loop
    result,     \* dpainf: the value returned (kind "none" while running)
    run,        \* dpainf: number of the call (1 or 2) on the same arguments
    prev,       \* dpainf: what the previous call returned
    elapsed,    \* dpainf: last value of time_start.elapsed() (ticks)
    norm,       \* normalized: [dpa, ts, recoloring, remove_states,
                \*   remove_edges, priority, pc, out], the locals of the call
    arg,        \* the arguments of a call of a pure function
    ret,        \* <<>> before the call, then <<its return value>>
    part,       \* prefix_partition: [dpa, partition, queue, pc]
    loop,       \* maximal_loop_from: [ts, scc, from, queue, current, word,
                \*   pc, res], res is <<>> for None and <<word>> for Some
    shr,        \* shrinking: [ts, source, before, out, pc, op, args], ts
                \*   with state colours, before its value when the call
                \*   began, op the operation called with source and args
    hoa,        \* HOA boundary: [op, value, text, out], the call from_hoa on
                \*   value, or a name value, its Display text and what
                \*   try_from returns for that text
    strm,       \* streamlined: [dpa, word, before, out, after, pc]
    conf        \* conflict relations: [op, left, right, conflicts, cong,
                \*   queue, expanded, out, pc], the call op on two automata

sproutVars == <<input, cong, queue, pc, cur, result, run, prev, elapsed>>

\* the variables of the calls on parity automata
dpaVars == <<norm, arg, ret, part>>

vars == <<mode, sproutVars, dpaVars, loop, shr, hoa, strm, conf>>

\* the value of the variables of an operation that a behaviour does not use
Idle == "idle"

(***************************************************************************)
(* Bounds of the model.                                                    *)
(***************************************************************************)
AlphaSize == 2          \* number of symbols of the alphabet
MaxWordLen == 1         \* longest word of a finite sample
MaxExtraWordLen == 2    \* longest word of an additional finite sample
MaxSampleWords == 2     \* number of words of a finite sample
MaxPtaStates == 2       \* states of a prefix tree of a conflict relation
MaxElapsed == 3         \* largest clock reading (ticks)
TicksPerSecond == 2     \* resolution of the clock
MaxDpaStates == 2       \* states of a parity automaton
MaxColor == 3           \* largest priority of a parity automaton
MaxLoopStates == 3      \* states of a system whose components are walked
MaxShrinkStates == 3    \* states of a system that is shrunk
MaxSpokeLen == 1        \* length of the prefix u of a word u v^omega
MaxCycleLen == 2        \* length of its period v
PairAlphaSize == 1      \* symbols of the automata that are compared in pairs

None == -1              \* Option::None for a state index
IntMax == 255           \* Int::MAX, above every priority in use
Void == 0               \* the color Void
NoTimeout == 1000       \* timeout_seconds.unwrap_or(u64::MAX)

Sigma == 1..AlphaSize   \* alphabet().universe(), in alphabet order

\* all finite words over Sigma of length at most n
Words(n) == UNION {[1..k -> Sigma] : k \in 0..n}

Max(S) == CHOOSE x \in S : \A y \in S : y <= x
Min(S) == CHOOSE x \in S : \A y \in S : x <= y

(***************************************************************************)
(* Deterministic transition systems.                                       *)
(***************************************************************************)
\* edges_from(q)
EdgesFrom(ts, q) == {e \in ts.delta : e[1] = q}

\* the successor of q on symbol a, or None
Successor(ts, q, a) ==
    IF \E e \in ts.delta : e[1] = q /\ e[2] = a
    THEN (CHOOSE e \in ts.delta : e[1] = q /\ e[2] = a)[4]
    ELSE None

\* reached_state_index_from(q, w): None if a transition is undefined
RECURSIVE ReachedStateIndexFrom(_, _, _)
ReachedStateIndexFrom(ts, q, w) ==
    IF q = None THEN None
    ELSE IF w = <<>> THEN q
    ELSE ReachedStateIndexFrom(ts, Successor(ts, q, Head(w)), Tail(w))

\* reachable_state_indices_from(q): the states reachable from the set S
RECURSIVE ReachableFrom(_, _)
ReachableFrom(ts, S) ==
    LET N == S \cup {e[4] : e \in {e \in ts.delta : e[1] \in S}}
    IN  IF N = S THEN S ELSE ReachableFrom(ts, N)

\* add_edge((q, a, c, t)): replaces the edge of q on a, returns the prior one
AddEdge(ts, q, a, c, t) ==
    [prior |-> {e \in ts.delta : e[1] = q /\ e[2] = a},
     ts    |-> [ts EXCEPT !.delta =
                   {e \in @ : ~(e[1] = q /\ e[2] = a)} \cup {<<q, a, c, t>>}]]

\* remove_edges_between_matching(source, target, sym)
RemoveEdgesBetweenMatching(ts, q, t, a) ==
    [ts EXCEPT !.delta = {e \in @ : ~(e[1] = q /\ e[4] = t /\ e[2] = a)}]

\* ts_product: synchronous product, states are pairs, colors are pairs
TsProduct(T, U) ==
    [states |-> T.states \X U.states,
     delta  |-> {<<<<p[1][1], p[2][1]>>, p[1][2], <<p[1][3], p[2][3]>>,
                   <<p[1][4], p[2][4]>>>> :
                   p \in {p \in T.delta \X U.delta : p[1][2] = p[2][2]}}]

\* the states of the non-transient SCCs: those lying on a cycle
OnCycle(ts) ==
    {q \in ts.states :
        q \in ReachableFrom(ts, {e[4] : e \in EdgesFrom(ts, q)})}

(***************************************************************************)
(* Consistency checks: FiniteSample, ConflictRelation and ().              *)
(***************************************************************************)
EmptyTs == [states |-> {0}, delta |-> {}]

FiniteSample(P, N) ==
    [kind |-> "sample", pos |-> P, neg |-> N,
     dfas |-> <<EmptyTs, EmptyTs>>, conflicts |-> {}]

UnitCheck ==
    [kind |-> "unit", pos |-> {}, neg |-> {},
     dfas |-> <<EmptyTs, EmptyTs>>, conflicts |-> {}]

\* PrefixConsistencyConflicts that takes every state of the product to have
\* prefix_consistency_conflicts that keeps the states of the cycles only
PrefixConsistencyConflictsOnCycle(left_pta, right_pta) ==
    LET dfa == TsProduct(left_pta, right_pta)
        states_with_infinite_run == OnCycle(dfa)
    IN  [kind |-> "conflict", pos |-> {}, neg |-> {},
         dfas |-> <<left_pta, right_pta>>,
         conflicts |-> states_with_infinite_run]

\* an infinite run
PrefixConsistencyConflictsAll(left_pta, right_pta) ==
    LET dfa == TsProduct(left_pta, right_pta)
        states_with_infinite_run == dfa.states
    IN  [kind |-> "conflict", pos |-> {}, neg |-> {},
         dfas |-> <<left_pta, right_pta>>,
         conflicts |-> {s \in dfa.states :
             ReachableFrom(dfa, {s}) \cap states_with_infinite_run # {}}]

\* prefix_consistency_conflicts, from the two prefix trees on
PrefixConsistencyConflicts(left_pta, right_pta) ==
    LET dfa == TsProduct(left_pta, right_pta)
        states_with_infinite_run == OnCycle(dfa)
    IN  [kind |-> "conflict", pos |-> {}, neg |-> {},
         dfas |-> <<left_pta, right_pta>>,
         conflicts |-> {s \in dfa.states :
             ReachableFrom(dfa, {s}) \cap states_with_infinite_run # {}}]

\* FiniteSample::consistent
SampleConsistent(chk, c) ==
    LET positive_indices ==
            {ReachedStateIndexFrom(c, 0, w) : w \in chk.pos} \ {None}
        negative_indices ==
            {ReachedStateIndexFrom(c, 0, w) : w \in chk.neg} \ {None}
    IN  positive_indices \cap negative_indices = {}

\* ConflictRelation::consistent that compares states of different classes
ConflictConsistentAnyClass(chk, c) ==
    LET left == TsProduct(c, chk.dfas[1])
        right == TsProduct(c, chk.dfas[2])
        left_reachable == ReachableFrom(left, {<<0, 0>>})
        right_reachable == ReachableFrom(right, {<<0, 0>>})
    IN  ~ \E l \in left_reachable : \E r \in right_reachable :
            <<l[2], r[2]>> \in chk.conflicts

\* ConflictRelation::consistent
ConflictConsistent(chk, c) ==
    LET left == TsProduct(c, chk.dfas[1])
        right == TsProduct(c, chk.dfas[2])
        left_reachable == ReachableFrom(left, {<<0, 0>>})
        right_reachable == ReachableFrom(right, {<<0, 0>>})
    IN  ~ \E l \in left_reachable : \E r \in right_reachable :
            l[1] = r[1] /\ <<l[2], r[2]>> \in chk.conflicts

\* ConsistencyCheck::consistent
Consistent(chk, c) ==
    CASE chk.kind = "sample"   -> SampleConsistent(chk, c)
      [] chk.kind = "conflict" -> ConflictConsistent(chk, c)
      [] OTHER                 -> TRUE

\* ConsistencyCheck::threshold; max_word_len is 0 for the empty sample
Threshold(chk) ==
    CASE chk.kind = "sample"   ->
            LET max_word_len ==
                    IF chk.pos \cup chk.neg = {} THEN 0
                    ELSE Max({Len(w) : w \in chk.pos \cup chk.neg})
            IN  max_word_len * 2
      [] chk.kind = "conflict" ->
            2 * Cardinality(chk.dfas[1].states) * Cardinality(chk.dfas[2].states)
      [] OTHER                 -> 0

\* conflicts.consistent(&cong) && additional_constraints.iter().all(..)
AllConsistent(inp, c) ==
    /\ Consistent(inp.primary, c)
    /\ \A i \in 1..Len(inp.extra) : Consistent(inp.extra[i], c)

(***************************************************************************)
(* The arguments dpainf is called with.                                    *)
(***************************************************************************)
FiniteSamples ==
    {FiniteSample(s[1], s[2]) :
        s \in {s \in (SUBSET Words(MaxWordLen)) \X (SUBSET Words(MaxWordLen)) :
                  /\ s[1] \cap s[2] = {}
                  /\ Cardinality(s[1] \cup s[2]) <= MaxSampleWords}}

\* the prefix tree of one reduced ultimately periodic word: the word w is
\* read along the states 0..Len(w)-1 and its last symbol leads back to k
LassoPta(w, k) ==
    [states |-> 0..(Len(w) - 1),
     delta  |-> {<<i - 1, w[i], Void, IF i = Len(w) THEN k ELSE i>> :
                    i \in 1..Len(w)}]

\* the cycle w[k+1..] is no power of a shorter word and the spoke w[1..k]
\* does not end with the last symbol of the cycle
IsReduced(w, k) ==
    LET n == Len(w) - k
    IN  /\ \A d \in 1..(n - 1) :
               n % d = 0 => \E i \in 1..n : w[k + i] # w[k + ((i - 1 + d) % n) + 1]
        /\ k > 0 => w[k] # w[Len(w)]

PrefixTrees ==
    {LassoPta(p[1], p[2]) :
        p \in {p \in (Words(MaxPtaStates) \ {<<>>}) \X (0..(MaxPtaStates - 1)) :
                  p[2] < Len(p[1]) /\ IsReduced(p[1], p[2])}}

ConflictRelations ==
    {PrefixConsistencyConflicts(p[1], p[2]) :
        p \in {p \in PrefixTrees \X PrefixTrees : p[1] # p[2]}}

ExtraChecks ==
    {UnitCheck} \cup
    {FiniteSample({p[1]}, {p[2]}) :
        p \in {p \in Words(1) \X Words(1) : p[1] # p[2]}}

Inputs ==
    [primary : FiniteSamples \cup ConflictRelations,
     extra   : {<<>>} \cup {<<c>> : c \in ExtraChecks},
     allow   : BOOLEAN,
     timeout : {NoTimeout, 1}]

(***************************************************************************)
(* dpainf.                                                                 *)
(***************************************************************************)
NoResult == [kind |-> "none", cong |-> EmptyTs, threshold |-> 0]

\* InitialQueue with the symbols in reverse alphabet order
InitialQueueReversed == [i \in 1..AlphaSize |-> <<0, AlphaSize + 1 - i>>]

\* RightCongruence::new_with_initial_color and the seeding of the queue
InitialQueue == [i \in 1..AlphaSize |-> <<0, i>>]

SproutStart(inp) ==
    /\ input = inp
    /\ cong = EmptyTs
    /\ queue = InitialQueue
    /\ pc = "outer"
    /\ cur = [source |-> 0, sym |-> 1, target |-> 0]
    /\ result = NoResult
    /\ elapsed = 0

InitSprout ==
    /\ mode = "sprout"
    /\ conf = Idle
    /\ hoa = Idle /\ strm = Idle
    /\ norm = Idle /\ arg = Idle /\ ret = Idle /\ part = Idle
    /\ loop = Idle /\ shr = Idle
    /\ run = 1
    /\ prev = NoResult
    /\ \E inp \in Inputs : SproutStart(inp)

\* dpainf is called without timeout and with one additional finite sample
\* that keeps a word of up to MaxExtraWordLen symbols apart from shorter
\* words, so that classes beyond the first are rejected as targets
InitThreshold ==
    /\ mode = "sprout"
    /\ conf = Idle
    /\ hoa = Idle /\ strm = Idle
    /\ norm = Idle /\ arg = Idle /\ ret = Idle /\ part = Idle
    /\ loop = Idle /\ shr = Idle
    /\ run = 1
    /\ prev = NoResult
    /\ \E primary \in FiniteSamples \cup ConflictRelations,
          p \in Words(MaxExtraWordLen),
          N \in (SUBSET Words(MaxWordLen)) \ {{}},
          allow \in BOOLEAN :
            /\ p \notin N
            /\ SproutStart([primary |-> primary,
                            extra |-> <<FiniteSample({p}, N)>>,
                            allow |-> allow,
                            timeout |-> NoTimeout])

Size(c) == Cardinality(c.states)

\* Duration::as_secs: the whole seconds of a duration
AsSecs(d) == d \div TicksPerSecond

\* DpaInfPop with pop_back: the missing transitions are taken last in,
\* first out
DpaInfPopBack ==
    /\ mode = "sprout" /\ pc = "outer" /\ queue # <<>>
    /\ \E now \in elapsed..MaxElapsed :
        /\ elapsed' = now
        /\ queue' = SubSeq(queue, 1, Len(queue) - 1)
        /\ cur' = [source |-> queue[Len(queue)][1],
                   sym |-> queue[Len(queue)][2], target |-> 0]
        /\ IF AsSecs(now) >= input.timeout
           THEN /\ result' = [kind |-> "Timeout", cong |-> cong, threshold |-> 0]
                /\ pc' = "done"
           ELSE /\ result' = result
                /\ pc' = "for"
    /\ UNCHANGED <<mode, input, cong, run, prev, dpaVars, loop, shr, hoa, strm, conf>>

\* while let Some((source, sym)) = queue.pop_front(), with the timeout check
DpaInfPop ==
    /\ mode = "sprout" /\ pc = "outer" /\ queue # <<>>
    /\ \E now \in elapsed..MaxElapsed :
        /\ elapsed' = now
        /\ queue' = Tail(queue)
        /\ cur' = [source |-> Head(queue)[1], sym |-> Head(queue)[2], target |-> 0]
        /\ IF AsSecs(now) >= input.timeout
           THEN /\ result' = [kind |-> "Timeout", cong |-> cong, threshold |-> 0]
                /\ pc' = "done"
           ELSE /\ result' = result
                /\ pc' = "for"
    /\ UNCHANGED <<mode, input, cong, run, prev, dpaVars, loop, shr, hoa, strm, conf>>

\* the queue is empty: Ok(cong)
DpaInfOk ==
    /\ mode = "sprout" /\ pc = "outer" /\ queue = <<>>
    /\ result' = [kind |-> "Ok", cong |-> cong, threshold |-> 0]
    /\ pc' = "done"
    /\ UNCHANGED <<mode, input, cong, queue, cur, run, prev, elapsed, dpaVars, loop, shr, hoa, strm, conf>>

\* DpaInfAddEdge that never skips epsilon
DpaInfAddEdgeIntoEpsilon ==
    /\ mode = "sprout" /\ pc = "for" /\ cur.target < Size(cong)
    /\ LET added == AddEdge(cong, cur.source, cur.sym, Void, cur.target)
       IN  /\ cong' = added.ts
           /\ IF added.prior = {}
              THEN pc' = "check" /\ result' = result
              ELSE /\ pc' = "done"
                   /\ result' = [kind |-> "Panic", cong |-> added.ts,
                                 threshold |-> 0]
           /\ cur' = cur
    /\ UNCHANGED <<mode, input, queue, run, prev, elapsed, dpaVars, loop, shr, hoa, strm, conf>>

\* for target in 0..cong.size(): skip epsilon, or add the tentative edge
DpaInfAddEdge ==
    /\ mode = "sprout" /\ pc = "for" /\ cur.target < Size(cong)
    /\ IF ~input.allow /\ cur.target = 0
       THEN /\ cur' = [cur EXCEPT !.target = @ + 1]
            /\ UNCHANGED <<cong, pc, result>>
       ELSE LET added == AddEdge(cong, cur.source, cur.sym, Void, cur.target)
            IN  /\ cong' = added.ts
                /\ IF added.prior = {}
                   THEN pc' = "check" /\ result' = result
                   ELSE /\ pc' = "done"
                        /\ result' = [kind |-> "Panic", cong |-> added.ts,
                                      threshold |-> 0]
                /\ cur' = cur
    /\ UNCHANGED <<mode, input, queue, run, prev, elapsed, dpaVars, loop, shr, hoa, strm, conf>>

\* DpaInfCheck without the additional constraints: the edge is kept as soon
\* as the primary check accepts it
DpaInfCheckPrimaryOnly ==
    /\ mode = "sprout" /\ pc = "check"
    /\ IF Consistent(input.primary, cong)
       THEN /\ pc' = "outer"
            /\ UNCHANGED <<cong, cur>>
       ELSE /\ cong' = RemoveEdgesBetweenMatching(cong, cur.source, cur.target,
                                                  cur.sym)
            /\ cur' = [cur EXCEPT !.target = @ + 1]
            /\ pc' = "for"
    /\ UNCHANGED <<mode, input, queue, result, run, prev, elapsed, dpaVars, loop, shr, hoa, strm, conf>>

\* DpaInfCheck that tries a rejected target again
DpaInfCheckRetries ==
    /\ mode = "sprout" /\ pc = "check"
    /\ IF AllConsistent(input, cong)
       THEN /\ pc' = "outer"
            /\ UNCHANGED <<cong, cur>>
       ELSE /\ cong' = RemoveEdgesBetweenMatching(cong, cur.source, cur.target,
                                                  cur.sym)
            /\ cur' = cur
            /\ pc' = "for"
    /\ UNCHANGED <<mode, input, queue, result, run, prev, elapsed, dpaVars, loop, shr, hoa, strm, conf>>

\* DpaInfCheck that leaves a rejected edge in place
DpaInfCheckKeepsRejected ==
    /\ mode = "sprout" /\ pc = "check"
    /\ IF AllConsistent(input, cong)
       THEN /\ pc' = "outer"
            /\ UNCHANGED <<cong, cur>>
       ELSE /\ cong' = cong
            /\ cur' = [cur EXCEPT !.target = @ + 1]
            /\ pc' = "for"
    /\ UNCHANGED <<mode, input, queue, result, run, prev, elapsed, dpaVars, loop, shr, hoa, strm, conf>>

\* the consistency test of the tentative edge: keep it or remove it
DpaInfCheck ==
    /\ mode = "sprout" /\ pc = "check"
    /\ IF AllConsistent(input, cong)
       THEN /\ pc' = "outer"
            /\ UNCHANGED <<cong, cur>>
       ELSE /\ cong' = RemoveEdgesBetweenMatching(cong, cur.source, cur.target,
                                                  cur.sym)
            /\ cur' = [cur EXCEPT !.target = @ + 1]
            /\ pc' = "for"
    /\ UNCHANGED <<mode, input, queue, result, run, prev, elapsed, dpaVars, loop, shr, hoa, strm, conf>>

\* ExceedsThreshold that lets one more class in
ExceedsThresholdLate(c, threshold) == Size(c) > threshold + 1

\* the state count against the threshold
ExceedsThreshold(c, threshold) == Size(c) > threshold

\* NewTransitions that enqueues the first symbol only
NewTransitionsFirstOnly(new_state) == <<<<new_state, 1>>>>

\* the symbols enqueued for a new state
NewTransitions(new_state) == [i \in 1..AlphaSize |-> <<new_state, i>>]

\* no existing class was consistent: Threshold error or a new state
DpaInfNewState ==
    /\ mode = "sprout" /\ pc = "for" /\ cur.target >= Size(cong)
    /\ IF ExceedsThreshold(cong, Threshold(input.primary))
       THEN /\ result' = [kind |-> "Threshold", cong |-> cong,
                          threshold |-> Threshold(input.primary)]
            /\ pc' = "done"
            /\ UNCHANGED <<cong, queue>>
       ELSE LET new_state == Size(cong)
                grown == [cong EXCEPT !.states = @ \cup {new_state}]
            IN  /\ cong' = AddEdge(grown, cur.source, cur.sym, Void, new_state).ts
                /\ queue' = queue \o NewTransitions(new_state)
                /\ pc' = "outer"
                /\ result' = result
    /\ UNCHANGED <<mode, input, cur, run, prev, elapsed, dpaVars, loop, shr, hoa, strm, conf>>

\* dpainf is called a second time with the same arguments
DpaInfAgain ==
    /\ mode = "sprout" /\ pc = "done" /\ run = 1
    /\ run' = 2
    /\ prev' = result
    /\ cong' = EmptyTs
    /\ queue' = InitialQueue
    /\ pc' = "outer"
    /\ cur' = [source |-> 0, sym |-> 1, target |-> 0]
    /\ result' = NoResult
    /\ elapsed' = 0
    /\ UNCHANGED <<mode, input, dpaVars, loop, shr, hoa, strm, conf>>

NextSprout ==
    \/ DpaInfPop
    \/ DpaInfOk
    \/ DpaInfAddEdge
    \/ DpaInfCheck
    \/ DpaInfNewState
    \/ DpaInfAgain

Spec == InitSprout /\ [][NextSprout]_vars

\* dpainf on the arguments of InitThreshold
SpecThreshold == InitThreshold /\ [][NextSprout]_vars

\* dpainf under the scheduling of a sequential program: a step that can be
\* taken is taken
FairSpec == Spec /\ WF_vars(NextSprout)

(***************************************************************************)
(* Properties of dpainf.                                                   *)
(***************************************************************************)
\* C1: whenever dpainf returns Ok(~), ~ is consistent with the primary check
\* and with every additional constraint that was passed in.
C1_OkIsConsistent ==
    (mode = "sprout" /\ result.kind = "Ok") =>
        /\ Consistent(input.primary, result.cong)
        /\ \A i \in 1..Len(input.extra) : Consistent(input.extra[i], result.cong)

\* an Ok result with several classes under a primary conflict relation and an
\* additional finite sample, both of which rejected some tentative edge
C1_Witness ==
    /\ mode = "sprout" /\ result.kind = "Ok"
    /\ input.primary.kind = "conflict" /\ input.primary.conflicts # {}
    /\ Len(input.extra) = 1 /\ input.extra[1].kind = "sample"
    /\ Size(result.cong) >= 3

\* C2: whenever dpainf returns Ok(~), ~ has at most conflicts.threshold()
\* classes.
C2_OkWithinThreshold ==
    (mode = "sprout" /\ result.kind = "Ok") =>
        Size(result.cong) <= Threshold(input.primary)

\* C3: whenever dpainf returns Ok(~), every class has exactly one outgoing
\* edge on every symbol.
C3_OkIsComplete ==
    (mode = "sprout" /\ result.kind = "Ok") =>
        \A q \in result.cong.states : \A a \in Sigma :
            Cardinality({e \in result.cong.delta : e[1] = q /\ e[2] = a}) = 1

\* an Ok result with at least three classes
C3_Witness ==
    mode = "sprout" /\ result.kind = "Ok" /\ Size(result.cong) >= 3

\* the result the arguments alone determine: the missing transitions are
\* settled in the order of (class id, symbol); each one leads to the least
\* class that is allowed and consistent, otherwise to a new class, unless
\* the classes outnumber the threshold
RECURSIVE GreedyFrom(_, _, _, _)
GreedyFrom(inp, c, q, a) ==
    IF q \notin c.states
    THEN [kind |-> "Ok", cong |-> c, threshold |-> 0]
    ELSE LET To(t) == [c EXCEPT !.delta = @ \cup {<<q, a, Void, t>>}]
             fits == {t \in c.states :
                        (inp.allow \/ t # 0) /\ AllConsistent(inp, To(t))}
             fresh == Cardinality(c.states)
             grown == [states |-> c.states \cup {fresh},
                       delta |-> c.delta \cup {<<q, a, Void, fresh>>}]
             nq == IF a = AlphaSize THEN q + 1 ELSE q
             na == IF a = AlphaSize THEN 1 ELSE a + 1
         IN  IF fits # {} THEN GreedyFrom(inp, To(Min(fits)), nq, na)
             ELSE IF fresh > Threshold(inp.primary)
             THEN [kind |-> "Threshold", cong |-> c,
                   threshold |-> Threshold(inp.primary)]
             ELSE GreedyFrom(inp, grown, nq, na)

\* C4: the result of a call of dpainf in which no timeout fires is the one
\* its arguments determine, whatever the clock read during the call; so a
\* second call on the same arguments returns the same outcome, the same
\* classes with the same ids and the same edges as the first.
C4_Deterministic ==
    (mode = "sprout" /\ pc = "done" /\ result.kind # "Timeout") =>
        /\ result = GreedyFrom(input, EmptyTs, 0, 1)
        /\ (run = 2 /\ prev.kind # "Timeout") => result = prev

\* both calls returned Ok with at least three classes; the clock had
\* advanced in the second call
C4_Witness ==
    /\ mode = "sprout" /\ run = 2 /\ pc = "done"
    /\ result.kind = "Ok" /\ prev.kind = "Ok"
    /\ Size(result.cong) >= 3 /\ ~input.allow
    /\ elapsed > 0

-----------------------------------------------------------------------------
\* Strongly connected components (ts/connected_components/scc.rs).

\* the component of q: the states that reach q and are reached from it
SccOf(ts, q) ==
    {p \in ReachableFrom(ts, {q}) : q \in ReachableFrom(ts, {p})}

\* Tarjan's decomposition of the whole transition system
Sccs(ts) == {SccOf(ts, q) : q \in ts.states}

\* edges that start and end inside the component
InteriorEdges(ts, scc) ==
    {e \in ts.delta : e[1] \in scc /\ e[4] \in scc}

\* edges that start inside the component and leave it
BorderEdges(ts, scc) ==
    {e \in ts.delta : e[1] \in scc /\ e[4] \notin scc}

InteriorEdgeColors(ts, scc) == {e[3] : e \in InteriorEdges(ts, scc)}

IsTransient(ts, scc) == InteriorEdges(ts, scc) = {}

-----------------------------------------------------------------------------
\* Deterministic parity automata (automaton/omega/parity.rs): a record
\* [states, delta, initial] whose edge colours are priorities.

Colors == 0..MaxColor

\* the complete automata over the symbols syms with states 0..n-1
CompleteDpas(n, syms) ==
    LET Q == 0..(n - 1)
    IN  {[states |-> Q,
          delta |-> {<<qa[1], qa[2], f[qa][1], f[qa][2]>> : qa \in Q \X syms},
          initial |-> 0] : f \in [Q \X syms -> Colors \X Q]}

Dpas == UNION {CompleteDpas(n, Sigma) : n \in 1..MaxDpaStates}

\* the transition system of an automaton, without its initial state
IntoDts(dpa) == [states |-> dpa.states, delta |-> dpa.delta]

\* the elements of a set of tuples with distinct (state, symbol) keys,
\* listed in the lexicographic order of their keys
SeqOfSet(S) ==
    LET KeyLess(x, y) == x[1] < y[1] \/ (x[1] = y[1] /\ x[2] < y[2])
    IN  [i \in 1..Cardinality(S) |->
            CHOOSE x \in S :
                Cardinality({y \in S : KeyLess(y, x)}) = i - 1]

\* FindRecoloring that takes the last entry stored for (q, a)
FindRecoloringLast(recoloring, q, a) ==
    LET hits == {i \in 1..Len(recoloring) :
                    recoloring[i][1] = q /\ recoloring[i][2] = a}
    IN  IF hits = {} THEN None ELSE recoloring[Max(hits)][3]

\* recoloring.iter().find(...): the priority of the first entry for (q, a),
\* None when there is no entry
FindRecoloring(recoloring, q, a) ==
    LET hits == {i \in 1..Len(recoloring) :
                    recoloring[i][1] = q /\ recoloring[i][2] = a}
    IN  IF hits = {} THEN None ELSE recoloring[Min(hits)][3]

\* a variant that never skips: the least interior edges are recoloured in
\* every round, whatever their parity
SkipsInteriorNever(priority, m) == FALSE

\* the test that decides whether a round recolours and removes the interior
\* edges of least colour m of a component: it skips them on a parity mismatch
SkipsInterior(priority, m) == priority % 2 # m % 2

\* what one round schedules for a component: the recolouring entries in the
\* order of their push (for a transient component its outgoing edges; for
\* another one its border edges, then its interior edges of least colour
\* unless they are skipped), edges to remove, states to remove
PeelScc(ts, scc, priority) ==
    IF IsTransient(ts, scc)
    THEN LET out == {e \in ts.delta : e[1] \in scc}
         IN  [recoloring |-> SeqOfSet({<<e[1], e[2], priority>> : e \in out}),
              remove_edges |-> {<<e[1], e[2]>> : e \in out},
              remove_states |-> scc]
    ELSE LET m == Min(InteriorEdgeColors(ts, scc))
             border == SeqOfSet({<<e[1], e[2], priority>> :
                                    e \in BorderEdges(ts, scc)})
             least == {e \in InteriorEdges(ts, scc) : e[3] = m}
         IN  IF SkipsInterior(priority, m)
             THEN [recoloring |-> border, remove_edges |-> {},
                   remove_states |-> {}]
             ELSE [recoloring |->
                       border \o SeqOfSet({<<e[1], e[2], priority>> :
                                              e \in least}),
                   remove_edges |-> {<<e[1], e[2]>> : e \in least},
                   remove_states |-> {}]

\* NextPriority that never advances
NextPriorityStuck(priority, remove_edges) == priority

\* priority += 1 exactly when the round scheduled no edge
NextPriority(priority, remove_edges) ==
    IF remove_edges = {} THEN priority + 1 ELSE priority

\* Drained that also drops the recorded edges of states that stay
DrainedStatesOnly(ts, remove_edges, remove_states) ==
    [states |-> ts.states \ remove_states, delta |-> {}]

\* the transition system after the scheduled removals have been drained
Drained(ts, remove_edges, remove_states) ==
    LET kept == {e \in ts.delta : <<e[1], e[2]>> \notin remove_edges}
    IN  [states |-> ts.states \ remove_states,
         delta |-> {e \in kept : e[1] \notin remove_states
                                 /\ e[4] \notin remove_states}]

\* the drain panics when an edge is to be removed from a state that is gone,
\* or when a state is removed that still has an edge without a recolouring
DrainPanics(ts, recoloring, remove_edges, remove_states) ==
    \/ \E x \in remove_edges : x[1] \notin ts.states
    \/ \E q \in remove_states :
        \/ q \notin ts.states
        \/ \E e \in ts.delta :
            /\ e[1] = q
            /\ <<e[1], e[2]>> \notin remove_edges
            /\ FindRecoloring(recoloring, e[1], e[2]) = None

\* the variables of dpainf in a behaviour that does not call it
IdleSprout ==
    /\ input = Idle /\ cong = Idle /\ queue = Idle /\ pc = Idle
    /\ cur = Idle /\ result = Idle /\ run = Idle /\ prev = Idle
    /\ elapsed = Idle

NormalizedStart(dpa) ==
    [dpa |-> dpa, ts |-> IntoDts(dpa), recoloring |-> <<>>,
     remove_states |-> {}, remove_edges |-> {}, priority |-> 0,
     pc |-> "loop", out |-> None]

InitNormalized ==
    /\ mode = "normalized"
    /\ conf = Idle
    /\ hoa = Idle /\ strm = Idle
    /\ \E dpa \in Dpas : norm = NormalizedStart(dpa)
    /\ arg = Idle /\ ret = Idle /\ part = Idle
    /\ loop = Idle /\ shr = Idle
    /\ IdleSprout

\* one iteration of 'outer: drain the scheduled removals, stop when no state
\* is left, otherwise peel every component, the components in the order of
\* their least state and the entries of each in the order of their push,
\* and advance the priority
NormalizedRound ==
    /\ mode \in {"normalized", "streamlined"}
    /\ norm.pc = "loop"
    /\ LET ts == Drained(norm.ts, norm.remove_edges, norm.remove_states)
           peel == {PeelScc(ts, scc, norm.priority) : scc \in Sccs(ts)}
           tagged == UNION {
               LET seq == PeelScc(ts, scc, norm.priority).recoloring
               IN  {<<Min(scc), i, seq[i]>> : i \in 1..Len(seq)} :
               scc \in Sccs(ts)}
           pushed == [k \in 1..Cardinality(tagged) |->
               (CHOOSE t \in tagged :
                   Cardinality({u \in tagged :
                       \/ u[1] < t[1]
                       \/ u[1] = t[1] /\ u[2] < t[2]}) = k - 1)[3]]
           edges == UNION {x.remove_edges : x \in peel}
           states == UNION {x.remove_states : x \in peel}
       IN  IF DrainPanics(norm.ts, norm.recoloring, norm.remove_edges,
                          norm.remove_states)
           THEN norm' = [norm EXCEPT !.pc = "panic"]
           ELSE IF Cardinality(ts.states) = 0
           THEN norm' = [norm EXCEPT !.ts = ts, !.remove_edges = {},
                                     !.remove_states = {}, !.pc = "build"]
           ELSE norm' = [norm EXCEPT
                            !.ts = ts,
                            !.recoloring = @ \o pushed,
                            !.remove_edges = edges,
                            !.remove_states = states,
                            !.priority = NextPriority(@, edges)]
    /\ UNCHANGED <<mode, sproutVars, arg, ret, part, loop, shr, hoa, strm, conf>>

\* the output automaton: the input with every edge recoloured by the first
\* entry stored for it; a missing entry panics
NormalizedBuild ==
    /\ mode \in {"normalized", "streamlined"}
    /\ norm.pc = "build"
    /\ IF \E e \in norm.dpa.delta :
            FindRecoloring(norm.recoloring, e[1], e[2]) = None
       THEN norm' = [norm EXCEPT !.pc = "panic"]
       ELSE norm' = [norm EXCEPT
                !.pc = "done",
                !.out = [states |-> norm.dpa.states,
                         delta |-> {<<e[1], e[2],
                                      FindRecoloring(norm.recoloring,
                                                     e[1], e[2]),
                                      e[4]>> : e \in norm.dpa.delta},
                         initial |-> norm.dpa.initial]]
    /\ UNCHANGED <<mode, sproutVars, arg, ret, part, loop, shr, hoa, strm, conf>>

NextNormalized == NormalizedRound \/ NormalizedBuild

SpecNormalized == InitNormalized /\ [][NextNormalized]_vars

-----------------------------------------------------------------------------
\* normalized under the scheduling of a sequential program
FairNormalized == SpecNormalized /\ WF_vars(NextNormalized)

\* The language of a parity automaton, by its definition: a set of edges is
\* the set taken infinitely often by some run exactly when it is reachable
\* and strongly connected, and the run is accepting exactly when the least
\* priority in the set is even.

\* the edges of S form a closed walk: from the end of each edge the start of
\* every edge is reached inside S
IsLoop(S) ==
    LET g == [states |-> {e[1] : e \in S} \cup {e[4] : e \in S},
              delta |-> S]
    IN  \A e \in S : \A f \in S : f[1] \in ReachableFrom(g, {e[4]})

\* the sets of edges some run from q takes infinitely often
Loops(ts, q) ==
    LET reach == ReachableFrom(ts, {q})
        live == {e \in ts.delta : e[1] \in reach}
    IN  {S \in (SUBSET live) \ {{}} : IsLoop(S)}

\* both automata accept the same infinite words
SameLanguage(A, B) ==
    LET P == TsProduct(IntoDts(A), IntoDts(B))
    IN  \A S \in Loops(P, <<A.initial, B.initial>>) :
            Min({e[3][1] : e \in S}) % 2 = Min({e[3][2] : e \in S}) % 2

\* C5: the automaton returned by normalized() accepts exactly the words the
\* input automaton accepts.
C5_NormalizedSameLanguage ==
    (mode = "normalized" /\ norm.pc = "done") =>
        SameLanguage(norm.dpa, norm.out)

\* a two-state input whose priorities all change, with both parities present
C5_Witness ==
    /\ mode = "normalized" /\ norm.pc = "done"
    /\ Cardinality(norm.dpa.states) = 2
    /\ \A e \in norm.dpa.delta : e[3] >= 2
    /\ \E e \in norm.dpa.delta : e[3] = 2
    /\ \E e \in norm.dpa.delta : e[3] = 3
    /\ {e[3] : e \in norm.out.delta} = {0, 1}

-----------------------------------------------------------------------------
\* language_equivalent and the witness search it rests on.

\* edge_color_restricted(lo, hi): the edges whose colour lies in lo..hi
EdgeColorRestricted(ts, lo, hi) ==
    [ts EXCEPT !.delta = {e \in @ : lo <= e[3] /\ e[3] <= hi}]

\* Iterator::min on pairs of colours, in the order of Rust tuples
MinPair(S) ==
    CHOOSE x \in S : \A y \in S :
        x[1] < y[1] \/ (x[1] = y[1] /\ x[2] <= y[2])

\* minimal_representative() is Some: a state of the component is reached
\* from the initial state
HasMinimalRepresentative(ts, initial, scc) ==
    ReachableFrom(ts, {initial}) \cap scc # {}

\* witness_colors(k, other, l) is Some: the product of the two restricted
\* automata has a non-transient component whose least pair of interior
\* colours is (k, l) and that has a minimal representative
WitnessColors(A, k, B, l) ==
    LET t1 == EdgeColorRestricted(IntoDts(A), k, IntMax)
        t2 == EdgeColorRestricted(IntoDts(B), l, IntMax)
        prod == TsProduct(t1, t2)
    IN  \E scc \in Sccs(prod) :
            /\ ~IsTransient(prod, scc)
            /\ MinPair(InteriorEdgeColors(prod, scc)) = <<k, l>>
            /\ HasMinimalRepresentative(prod, <<A.initial, B.initial>>, scc)

\* colors(): the colours on the edges of all states
ColorsOf(A) == {e[3] : e \in A.delta}

\* witness_not_subset_of(other) is Some
WitnessNotSubsetOf(A, B) ==
    \E i \in {x \in ColorsOf(A) : x % 2 = 0} :
        \E j \in {x \in ColorsOf(B) : x % 2 = 1} :
            WitnessColors(A, i, B, j)

\* witness_inequivalence(other) is Some
WitnessInequivalence(A, B) ==
    WitnessNotSubsetOf(A, B) \/ WitnessNotSubsetOf(B, A)

LanguageEquivalent(A, B) == ~WitnessInequivalence(A, B)

\* the pairs of automata that are compared
DpaPairs ==
    LET D == UNION {CompleteDpas(n, 1..PairAlphaSize) :
                        n \in 1..MaxDpaStates}
    IN  D \X D

InitEquivalent ==
    /\ mode = "equivalent"
    /\ conf = Idle
    /\ hoa = Idle /\ strm = Idle
    /\ arg \in DpaPairs
    /\ ret = <<>>
    /\ norm = Idle /\ part = Idle
    /\ loop = Idle /\ shr = Idle
    /\ IdleSprout

\* the call arg[1].language_equivalent(&arg[2])
LanguageEquivalentCall ==
    /\ mode = "equivalent"
    /\ ret = <<>>
    /\ ret' = <<LanguageEquivalent(arg[1], arg[2])>>
    /\ UNCHANGED <<mode, sproutVars, norm, arg, part, loop, shr, hoa, strm, conf>>

NextEquivalent == LanguageEquivalentCall

SpecEquivalent == InitEquivalent /\ [][NextEquivalent]_vars

\* C6: language_equivalent(A, B) is true exactly when A and B accept the
\* same infinite words.
C6_EquivalentIffSameLanguage ==
    (mode = "equivalent" /\ ret # <<>>) =>
        (ret[1] = SameLanguage(arg[1], arg[2]))

-----------------------------------------------------------------------------
\* prefix_partition.

WithInitial(dpa, q) == [dpa EXCEPT !.initial = q]

\* the orders in which the states of S can be listed
RECURSIVE Orders(_)
Orders(S) ==
    IF S = {} THEN {<<>>}
    ELSE UNION {{<<x>> \o o : o \in Orders(S \ {x})} : x \in S}

\* the start of the call: the initial state forms the first class, the other
\* reachable states wait in the queue
PartitionStart(dpa, order) ==
    [dpa |-> dpa, partition |-> <<{dpa.initial}>>, queue |-> order,
     pc |-> "loop"]

InitPartition ==
    /\ mode = "partition"
    /\ conf = Idle
    /\ hoa = Idle /\ strm = Idle
    /\ \E dpa \in Dpas :
        \E order \in Orders(ReachableFrom(IntoDts(dpa), {dpa.initial})
                                \ {dpa.initial}) :
            part = PartitionStart(dpa, order)
    /\ norm = Idle /\ arg = Idle /\ ret = Idle
    /\ loop = Idle /\ shr = Idle
    /\ IdleSprout

\* the indices of the classes whose first state is language_equivalent to q
EquivalentClasses(dpa, partition, q) ==
    {i \in 1..Len(partition) :
        LanguageEquivalent(WithInitial(dpa, Min(partition[i])),
                           WithInitial(dpa, q))}

\* one iteration of 'outer: the popped state joins the first class whose
\* first state it is equivalent to, or forms a new class
PrefixPartitionStep ==
    /\ mode = "partition"
    /\ part.pc = "loop"
    /\ part.queue # <<>>
    /\ LET q == Head(part.queue)
           hits == EquivalentClasses(part.dpa, part.partition, q)
       IN  part' = [part EXCEPT
                !.queue = Tail(@),
                !.partition =
                    IF hits = {} THEN Append(@, {q})
                    ELSE [@ EXCEPT ![Min(hits)] = @ \cup {q}]]
    /\ UNCHANGED <<mode, sproutVars, norm, arg, ret, loop, shr, hoa, strm, conf>>

\* the queue is empty: the partition is returned
PrefixPartitionReturn ==
    /\ mode = "partition"
    /\ part.pc = "loop"
    /\ part.queue = <<>>
    /\ part' = [part EXCEPT !.pc = "done"]
    /\ UNCHANGED <<mode, sproutVars, norm, arg, ret, loop, shr, hoa, strm, conf>>

NextPartition == PrefixPartitionStep \/ PrefixPartitionReturn

SpecPartition == InitPartition /\ [][NextPartition]_vars

\* C7: in the partition returned by prefix_partition, two states of one cell
\* accept the same language and two states of different cells do not.
C7_PartitionIsLanguageEquivalence ==
    (mode = "partition" /\ part.pc = "done") =>
        \A i \in 1..Len(part.partition) : \A j \in 1..Len(part.partition) :
            \A p \in part.partition[i] : \A q \in part.partition[j] :
                (i = j) <=> SameLanguage(WithInitial(part.dpa, p),
                                         WithInitial(part.dpa, q))

-----------------------------------------------------------------------------
\* Acceptance of an ultimately periodic word u v^omega.

\* the colours of the edges taken by the run from q on the finite word w
RECURSIVE RunColors(_, _, _)
RunColors(ts, q, w) ==
    IF w = <<>> \/ q = None THEN {}
    ELSE LET e == {x \in ts.delta : x[1] = q /\ x[2] = Head(w)}
         IN  {x[3] : x \in e}
                 \cup RunColors(ts, Successor(ts, q, Head(w)), Tail(w))

\* the run on v, v, ... from q: seen lists the states at which the earlier
\* repetitions of v began; when q is one of them the lasso is closed and the
\* least colour on its cycle is the limit
RECURSIVE CycleLimit(_, _, _, _)
CycleLimit(ts, v, seen, q) ==
    IF \E i \in 1..Len(seen) : seen[i] = q
    THEN LET first == CHOOSE i \in 1..Len(seen) : seen[i] = q
         IN  Min(UNION {RunColors(ts, seen[j], v) : j \in first..Len(seen)})
    ELSE CycleLimit(ts, v, Append(seen, q), ReachedStateIndexFrom(ts, q, v))

\* the observer EdgeColorLimit: the least colour seen infinitely often
EdgeColorLimit(dpa, u, v) ==
    CycleLimit(IntoDts(dpa), v, <<>>,
               ReachedStateIndexFrom(IntoDts(dpa), dpa.initial, u))

\* a variant of the min-even test that accepts on an odd limit
EvaluateOdd(observed) == observed % 2 = 1

\* MinEvenParityCondition::evaluate
Evaluate(observed) == observed % 2 = 0

\* accepts(u v^omega)
Accepts(dpa, u, v) == Evaluate(EdgeColorLimit(dpa, u, v))

InitAccepts ==
    /\ mode = "accepts"
    /\ conf = Idle
    /\ hoa = Idle /\ strm = Idle
    /\ arg \in Dpas \X Words(MaxSpokeLen) \X (Words(MaxCycleLen) \ {<<>>})
    /\ ret = <<>>
    /\ norm = Idle /\ part = Idle
    /\ loop = Idle /\ shr = Idle
    /\ IdleSprout

\* the call arg[1].accepts(arg[2] arg[3]^omega)
AcceptsCall ==
    /\ mode = "accepts"
    /\ ret = <<>>
    /\ ret' = <<Accepts(arg[1], arg[2], arg[3])>>
    /\ UNCHANGED <<mode, sproutVars, norm, arg, part, loop, shr, hoa, strm, conf>>

NextAccepts == AcceptsCall

SpecAccepts == InitAccepts /\ [][NextAccepts]_vars

\* v repeated n times
RECURSIVE Power(_, _)
Power(v, n) == IF n = 0 THEN <<>> ELSE v \o Power(v, n - 1)

\* the colours that occur infinitely often on the run on u v^omega: after as
\* many repetitions of v as there are states the run is on its cycle, and as
\* many repetitions again go once around it
InfinitelyOftenColors(dpa, u, v) ==
    LET ts == IntoDts(dpa)
        n == Cardinality(dpa.states)
        q == ReachedStateIndexFrom(ts, dpa.initial, u \o Power(v, n))
    IN  RunColors(ts, q, Power(v, n))

\* C8: a complete automaton accepts u v^omega exactly when the least priority
\* that occurs infinitely often on its run is even.
C8_AcceptsIffLeastRecurringEven ==
    (mode = "accepts" /\ ret # <<>>) =>
        (ret[1] = (Min(InfinitelyOftenColors(arg[1], arg[2], arg[3])) % 2 = 0))

\* a rejected word whose prefix and first repetition of v pass an edge of an
\* even priority below every priority on the cycle
C8_Witness ==
    /\ mode = "accepts" /\ ret = <<FALSE>>
    /\ arg[2] # <<>>
    /\ 0 \in RunColors(IntoDts(arg[1]), arg[1].initial, arg[2] \o arg[3])
    /\ Min(InfinitelyOftenColors(arg[1], arg[2], arg[3])) = 1

-----------------------------------------------------------------------------
\* Scc::maximal_loop_from.

\* the deterministic transition systems with states 0..n-1, all edges of
\* colour Void
PartialDts(n) ==
    LET Q == 0..(n - 1)
    IN  {[states |-> Q,
          delta |-> {<<qa[1], qa[2], Void, f[qa]>> :
                        qa \in {x \in Q \X Sigma : f[x] # None}}] :
            f \in [Q \X Sigma -> Q \cup {None}]}

\* a variant of the queue that leaves out the self-loops
LoopQueueWithoutSelfLoops(ts, scc) ==
    LET inner == {e \in InteriorEdges(ts, scc) : e[1] # e[4]}
    IN  [p \in {e[1] : e \in inner} |->
            {<<e[2], e[4]>> : e \in {x \in inner : x[1] = p}}]

\* the queue: for every state with an interior transition, its interior
\* transitions as (symbol, target)
LoopQueue(ts, scc) ==
    LET inner == InteriorEdges(ts, scc)
    IN  [p \in {e[1] : e \in inner} |->
            {<<e[2], e[4]>> : e \in {x \in inner : x[1] = p}}]

\* queue.remove(&q)
WithoutKey(m, q) == [p \in (DOMAIN m) \ {q} |-> m[p]]

\* iter().find_or_first(|(_, p)| *p == current): a self-loop if there is
\* one, otherwise the first entry, in the iteration order of the set
FindOrFirst(S, current) ==
    LET self == {x \in S : x[2] = current}
    IN  IF self # {} THEN self ELSE S

\* the state the walk jumps to: the target of the first edge of current that
\* is a key of the queue, otherwise the first key
JumpTargets(ts, keys, current) ==
    LET next == {e[4] : e \in EdgesFrom(ts, current)} \cap keys
    IN  IF next # {} THEN next ELSE keys

\* word_from_to(p, q): the words that lead from p to q
WordFromTo(ts, p, q) ==
    {w \in Words(Cardinality(ts.states)) :
        ReachedStateIndexFrom(ts, p, w) = q}

\* maximal_loop_from as the iteration orders of the code fix it: the queue
\* and its sets are visited in ascending order, the edges of a state in the
\* order of their symbols, and word_from_to gives the shortest word, the
\* least one among the shortest
MaximalLoopFrom(ts, scc, from) ==
    LET First(S) == CHOOSE x \in S : \A y \in S :
                        x[1] < y[1] \/ (x[1] = y[1] /\ x[2] <= y[2])
        Before(w, v) == \E i \in 1..Len(w) :
                            /\ w[i] < v[i]
                            /\ \A j \in 1..(i - 1) : w[j] = v[j]
        Shortest(p, q) ==
            LET all == WordFromTo(ts, p, q)
                short == {w \in all : \A v \in all : Len(w) <= Len(v)}
            IN  CHOOSE w \in short : \A v \in short : w = v \/ Before(w, v)
        Jump(keys, current) ==
            LET next == {e \in EdgesFrom(ts, current) : e[4] \in keys}
            IN  IF next # {}
                THEN (CHOOSE e \in next : \A x \in next : e[2] <= x[2])[4]
                ELSE Min(keys)
        RECURSIVE Walk(_, _, _)
        Walk(todo, current, word) ==
            IF DOMAIN todo = {}
            THEN IF current = from THEN word
                 ELSE word \o Shortest(current, from)
            ELSE IF current \in DOMAIN todo
            THEN IF todo[current] = {}
                 THEN Walk(WithoutKey(todo, current), current, word)
                 ELSE LET x == First(FindOrFirst(todo[current], current))
                      IN  Walk([todo EXCEPT ![current] = @ \ {x}], x[2],
                               Append(word, x[1]))
            ELSE LET q == Jump(DOMAIN todo, current)
                 IN  IF todo[q] = {}
                     THEN Walk(WithoutKey(todo, q), current, word)
                     ELSE Walk(todo, q, word \o Shortest(current, q))
    IN  Walk(LoopQueue(ts, scc), from, <<>>)

InitLoop ==
    /\ mode = "loop"
    /\ conf = Idle
    /\ hoa = Idle /\ strm = Idle
    /\ \E n \in 1..MaxLoopStates : \E ts \in PartialDts(n) :
        \E scc \in Sccs(ts) : \E from \in scc :
            loop = [ts |-> ts, scc |-> scc, from |-> from,
                    queue |-> <<>>, current |-> from, word |-> <<>>,
                    pc |-> "start", res |-> <<>>]
    /\ norm = Idle /\ arg = Idle /\ ret = Idle /\ part = Idle
    /\ shr = Idle
    /\ IdleSprout

\* the start of the call: the queue is filled; None is returned when it is
\* empty
MaximalLoopStart ==
    /\ mode = "loop"
    /\ loop.pc = "start"
    /\ LET filled == LoopQueue(loop.ts, loop.scc)
       IN  IF loop.from \notin loop.scc
           THEN loop' = [loop EXCEPT !.pc = "panic"]
           ELSE IF DOMAIN filled = {}
           THEN loop' = [loop EXCEPT !.pc = "done", !.res = <<>>]
           ELSE IF loop.from \notin DOMAIN filled
           THEN loop' = [loop EXCEPT !.pc = "panic"]
           ELSE loop' = [loop EXCEPT !.queue = filled, !.pc = "while"]
    /\ UNCHANGED <<mode, sproutVars, dpaVars, shr, hoa, strm, conf>>

\* one iteration of the while loop
MaximalLoopStep ==
    /\ mode = "loop"
    /\ loop.pc = "while"
    /\ DOMAIN loop.queue # {}
    /\ IF loop.current \in DOMAIN loop.queue
       THEN IF loop.queue[loop.current] = {}
            THEN loop' = [loop EXCEPT !.queue = WithoutKey(@, loop.current)]
            ELSE \E x \in FindOrFirst(loop.queue[loop.current], loop.current) :
                    loop' = [loop EXCEPT
                        !.queue = [@ EXCEPT ![loop.current] = @ \ {x}],
                        !.word = Append(@, x[1]),
                        !.current = x[2]]
       ELSE \E q \in JumpTargets(loop.ts, DOMAIN loop.queue, loop.current) :
                IF loop.queue[q] = {}
                THEN loop' = [loop EXCEPT !.queue = WithoutKey(@, q)]
                ELSE IF WordFromTo(loop.ts, loop.current, q) = {}
                THEN loop' = [loop EXCEPT !.pc = "panic"]
                ELSE \E w \in WordFromTo(loop.ts, loop.current, q) :
                        loop' = [loop EXCEPT !.word = @ \o w, !.current = q]
    /\ UNCHANGED <<mode, sproutVars, dpaVars, shr, hoa, strm, conf>>

\* the queue is empty: the walk is closed and returned
MaximalLoopClose ==
    /\ mode = "loop"
    /\ loop.pc = "while"
    /\ DOMAIN loop.queue = {}
    /\ IF loop.current = loop.from
       THEN loop' = [loop EXCEPT !.pc = "done", !.res = <<loop.word>>]
       ELSE IF WordFromTo(loop.ts, loop.current, loop.from) = {}
       THEN loop' = [loop EXCEPT !.pc = "panic"]
       ELSE \E w \in WordFromTo(loop.ts, loop.current, loop.from) :
                loop' = [loop EXCEPT !.pc = "done", !.res = <<loop.word \o w>>,
                                     !.word = @ \o w, !.current = loop.from]
    /\ UNCHANGED <<mode, sproutVars, dpaVars, shr, hoa, strm, conf>>

NextLoop == MaximalLoopStart \/ MaximalLoopStep \/ MaximalLoopClose

SpecLoop == InitLoop /\ [][NextLoop]_vars

\* the edges taken by the run from q on the finite word w
RECURSIVE RunEdges(_, _, _)
RunEdges(ts, q, w) ==
    IF w = <<>> \/ q = None THEN {}
    ELSE {x \in ts.delta : x[1] = q /\ x[2] = Head(w)}
            \cup RunEdges(ts, Successor(ts, q, Head(w)), Tail(w))

\* C9: maximal_loop_from(q) returns None exactly when the component has no
\* interior transition; otherwise the run of the returned word from q stays
\* in the component, ends in q and takes every interior transition.
C9_MaximalLoop ==
    (mode = "loop" /\ loop.pc = "done") =>
        LET inner == InteriorEdges(loop.ts, loop.scc)
        IN  /\ (loop.res = <<>>) <=> (inner = {})
            /\ loop.res # <<>> =>
                LET w == loop.res[1]
                    taken == RunEdges(loop.ts, loop.from, w)
                IN  /\ ReachedStateIndexFrom(loop.ts, loop.from, w) = loop.from
                    /\ \A e \in taken : e[1] \in loop.scc /\ e[4] \in loop.scc
                    /\ inner \subseteq taken

\* a walk through a component of three states that had to jump or to close:
\* it is longer than the number of interior transitions
C9_Witness ==
    /\ mode = "loop" /\ loop.pc = "done" /\ loop.res # <<>>
    /\ Cardinality(loop.scc) = 3
    /\ Len(loop.res[1]) > Cardinality(InteriorEdges(loop.ts, loop.scc))
    /\ \E e \in loop.ts.delta : e[1] = e[4]

-----------------------------------------------------------------------------
\* Shrinkable: removing states from a transition system with state colours,
\* a record [states, delta, colors].

StateColors == BOOLEAN

\* the systems with states 0..n-1 and any colouring of the states
ColoredDts(n) ==
    {[states |-> ts.states, delta |-> ts.delta, colors |-> c] :
        ts \in PartialDts(n), c \in [0..(n - 1) -> StateColors]}

\* a variant of remove_state that leaves the edges into q in place
RemoveStateKeepsIncoming(ts, q) ==
    [color |-> ts.colors[q],
     ts |-> [states |-> ts.states \ {q},
             delta |-> {e \in ts.delta : e[1] # q},
             colors |-> [p \in ts.states \ {q} |-> ts.colors[p]]]]

\* remove_state(q): q goes with every edge that starts or ends in it; the
\* colour of q is returned
RemoveState(ts, q) ==
    [color |-> ts.colors[q],
     ts |-> [states |-> ts.states \ {q},
             delta |-> {e \in ts.delta : e[1] # q /\ e[4] # q},
             colors |-> [p \in ts.states \ {q} |-> ts.colors[p]]]]

\* state_indices_vec(): the states in ascending order
RECURSIVE StateIndicesVec(_)
StateIndicesVec(S) ==
    IF S = {} THEN <<>> ELSE <<Min(S)>> \o StateIndicesVec(S \ {Min(S)})

\* a variant that keeps every state
KeepsEveryState(reachable, q) == TRUE

\* reachable.contains(&q): the state is kept
KeepsState(reachable, q) == q \in reachable

\* the for loop of trim_from over the states todo
RECURSIVE TrimLoop(_, _, _, _)
TrimLoop(ts, reachable, todo, out) ==
    IF todo = <<>> THEN [ts |-> ts, out |-> out]
    ELSE LET q == Head(todo)
         IN  IF KeepsState(reachable, q)
             THEN TrimLoop(ts, reachable, Tail(todo), out)
             ELSE LET r == RemoveState(ts, q)
                  IN  TrimLoop(r.ts, reachable, Tail(todo),
                               Append(out, <<q, r.color>>))

InitShrink ==
    /\ mode = "shrink"
    /\ conf = Idle
    /\ hoa = Idle /\ strm = Idle
    /\ \E n \in 1..MaxShrinkStates : \E ts \in ColoredDts(n) :
        \E source \in 0..(MaxShrinkStates - 1) :
            shr = [ts |-> ts, source |-> source, before |-> ts,
                   out |-> <<>>, pc |-> "call", op |-> "none",
                   args |-> <<>>]
    /\ norm = Idle /\ arg = Idle /\ ret = Idle /\ part = Idle
    /\ loop = Idle
    /\ IdleSprout

\* the call ts.trim_from(source); it panics when source is not a state
TrimFrom ==
    /\ mode = "shrink"
    /\ shr.pc = "call"
    /\ IF shr.source \notin shr.ts.states
       THEN shr' = [shr EXCEPT !.pc = "panic"]
       ELSE LET reachable == ReachableFrom(shr.ts, {shr.source})
                r == TrimLoop(shr.ts, reachable,
                              StateIndicesVec(shr.ts.states), <<>>)
            IN  shr' = [shr EXCEPT !.ts = r.ts, !.out = r.out, !.pc = "done",
                                   !.op = "trim_from"]
    /\ UNCHANGED <<mode, sproutVars, dpaVars, loop, hoa, strm, conf>>

\* what a remove_edges_* operation returns and leaves: None and the system
\* as it was when an endpoint is absent, otherwise the removed edges
RemoveEdges(ts, present, removed) ==
    IF present
    THEN [ret |-> <<removed>>, ts |-> [ts EXCEPT !.delta = @ \ removed]]
    ELSE [ret |-> <<>>, ts |-> ts]

\* remove_edges_from_matching(source, sym)
RemoveEdgesFromMatching(ts, q, a) ==
    RemoveEdges(ts, q \in ts.states,
                {e \in ts.delta : e[1] = q /\ e[2] = a})

\* remove_edges_between_matching(source, target, sym), with its result
RemoveEdgesBetweenMatchingCall(ts, q, t, a) ==
    RemoveEdges(ts, q \in ts.states /\ t \in ts.states,
                ts.delta \ RemoveEdgesBetweenMatching(ts, q, t, a).delta)

\* remove_edges_between(source, target)
RemoveEdgesBetween(ts, q, t) ==
    RemoveEdges(ts, q \in ts.states /\ t \in ts.states,
                {e \in ts.delta : e[1] = q /\ e[4] = t})

\* remove_edges_from(source)
RemoveEdgesFrom(ts, q) ==
    RemoveEdges(ts, q \in ts.states, {e \in ts.delta : e[1] = q})

\* remove_edges_to(target)
RemoveEdgesTo(ts, q) ==
    RemoveEdges(ts, q \in ts.states, {e \in ts.delta : e[4] = q})

\* the state of the call after an operation returned ret and left ts
Returned(op, args, r) ==
    [shr EXCEPT !.ts = r.ts, !.out = r.ret, !.op = op, !.args = args,
                !.pc = "returned"]

\* the call ts.remove_state(source)
RemoveStateCall ==
    /\ mode = "shrink"
    /\ shr.pc = "call"
    /\ shr' = Returned("remove_state", <<>>,
            IF shr.source \in shr.ts.states
            THEN LET r == RemoveState(shr.ts, shr.source)
                 IN  [ret |-> <<r.color>>, ts |-> r.ts]
            ELSE [ret |-> <<>>, ts |-> shr.ts])
    /\ UNCHANGED <<mode, sproutVars, dpaVars, loop, hoa, strm, conf>>

\* the call ts.remove_edges_from_matching(source, a)
RemoveEdgesFromMatchingCall ==
    /\ mode = "shrink"
    /\ shr.pc = "call"
    /\ \E a \in Sigma :
        shr' = Returned("remove_edges_from_matching", <<a>>,
                        RemoveEdgesFromMatching(shr.ts, shr.source, a))
    /\ UNCHANGED <<mode, sproutVars, dpaVars, loop, hoa, strm, conf>>

\* the call ts.remove_edges_between_matching(source, t, a)
RemoveEdgesBetweenMatchingStep ==
    /\ mode = "shrink"
    /\ shr.pc = "call"
    /\ \E t \in 0..(MaxShrinkStates - 1) : \E a \in Sigma :
        shr' = Returned("remove_edges_between_matching", <<t, a>>,
                RemoveEdgesBetweenMatchingCall(shr.ts, shr.source, t, a))
    /\ UNCHANGED <<mode, sproutVars, dpaVars, loop, hoa, strm, conf>>

\* the call ts.remove_edges_between(source, t)
RemoveEdgesBetweenCall ==
    /\ mode = "shrink"
    /\ shr.pc = "call"
    /\ \E t \in 0..(MaxShrinkStates - 1) :
        shr' = Returned("remove_edges_between", <<t>>,
                        RemoveEdgesBetween(shr.ts, shr.source, t))
    /\ UNCHANGED <<mode, sproutVars, dpaVars, loop, hoa, strm, conf>>

\* the call ts.remove_edges_from(source)
RemoveEdgesFromCall ==
    /\ mode = "shrink"
    /\ shr.pc = "call"
    /\ shr' = Returned("remove_edges_from", <<>>,
                       RemoveEdgesFrom(shr.ts, shr.source))
    /\ UNCHANGED <<mode, sproutVars, dpaVars, loop, hoa, strm, conf>>

\* the call ts.remove_edges_to(source)
RemoveEdgesToCall ==
    /\ mode = "shrink"
    /\ shr.pc = "call"
    /\ shr' = Returned("remove_edges_to", <<>>,
                       RemoveEdgesTo(shr.ts, shr.source))
    /\ UNCHANGED <<mode, sproutVars, dpaVars, loop, hoa, strm, conf>>

NextShrink ==
    \/ TrimFrom
    \/ RemoveStateCall
    \/ RemoveEdgesFromMatchingCall
    \/ RemoveEdgesBetweenMatchingStep
    \/ RemoveEdgesBetweenCall
    \/ RemoveEdgesFromCall
    \/ RemoveEdgesToCall

SpecShrink == InitShrink /\ [][NextShrink]_vars

\* C10: after trim_from(q) every remaining state is reachable from q, no
\* state that was reachable from q has been removed, and the returned list
\* holds exactly the removed states, each once, with its colour.
C10_TrimFrom ==
    (mode = "shrink" /\ shr.pc = "done") =>
        LET removed == shr.before.states \ shr.ts.states
        IN  /\ shr.ts.states \subseteq ReachableFrom(shr.ts, {shr.source})
            /\ ReachableFrom(shr.before, {shr.source}) \subseteq shr.ts.states
            /\ {shr.out[i] : i \in 1..Len(shr.out)} =
                    {<<q, shr.before.colors[q]>> : q \in removed}
            /\ Len(shr.out) = Cardinality(removed)

\* a call that removes a state with an edge into the part that stays, and
\* keeps more than the source
C10_Witness ==
    /\ mode = "shrink" /\ shr.pc = "done"
    /\ Len(shr.out) >= 1
    /\ Cardinality(shr.ts.states) = 2
    /\ \E e \in shr.before.delta :
        e[1] \notin shr.ts.states /\ e[4] \in shr.ts.states

\* C11: no shrink operation panics on a state id that is not in the system.
C11_NoShrinkPanics ==
    mode = "shrink" => shr.pc # "panic"

\* the edges a remove_edges_* operation names
NamedEdges(op, before, q, args) ==
    CASE op = "remove_edges_from_matching" ->
            {e \in before.delta : e[1] = q /\ e[2] = args[1]}
      [] op = "remove_edges_between_matching" ->
            {e \in before.delta : e[1] = q /\ e[4] = args[1] /\ e[2] = args[2]}
      [] op = "remove_edges_between" ->
            {e \in before.delta : e[1] = q /\ e[4] = args[1]}
      [] op = "remove_edges_from" -> {e \in before.delta : e[1] = q}
      [] op = "remove_edges_to" -> {e \in before.delta : e[4] = q}

\* the state ids an operation is given
GivenStates(op, q, args) ==
    IF op \in {"remove_edges_between_matching", "remove_edges_between"}
    THEN {q, args[1]} ELSE {q}

\* C12: each shrink operation removes exactly what it names: remove_state
\* of a present q returns its colour and removes q and its incident edges;
\* a remove_edges_* operation with present endpoints returns exactly the
\* edges it removed; everything else stays, and with an absent state the
\* operation returns None and changes nothing.
C12_ShrinkFrame ==
    (mode = "shrink" /\ shr.pc = "returned") =>
        LET b == shr.before
            q == shr.source
        IN  IF ~(GivenStates(shr.op, q, shr.args) \subseteq b.states)
            THEN shr.out = <<>> /\ shr.ts = b
            ELSE IF shr.op = "remove_state"
            THEN /\ shr.out = <<b.colors[q]>>
                 /\ shr.ts.states = b.states \ {q}
                 /\ b.delta \ shr.ts.delta =
                        {e \in b.delta : e[1] = q \/ e[4] = q}
                 /\ shr.ts.delta \subseteq b.delta
                 /\ \A p \in shr.ts.states : shr.ts.colors[p] = b.colors[p]
            ELSE /\ shr.out = <<NamedEdges(shr.op, b, q, shr.args)>>
                 /\ b.delta \ shr.ts.delta = shr.out[1]
                 /\ shr.ts.delta \subseteq b.delta
                 /\ shr.ts.states = b.states
                 /\ shr.ts.colors = b.colors

\* remove_state took a state with an edge into it and an edge out of it,
\* and an edge between other states stayed
C12_Witness ==
    /\ mode = "shrink" /\ shr.pc = "returned" /\ shr.op = "remove_state"
    /\ shr.out # <<>>
    /\ \E e \in shr.before.delta : e[1] = shr.source /\ e[4] # shr.source
    /\ \E e \in shr.before.delta : e[4] = shr.source /\ e[1] # shr.source
    /\ shr.ts.delta # {}

-----------------------------------------------------------------------------
(***************************************************************************)
(* The HOA boundary: from_hoa, and the names of properties and acceptance  *)
(* conditions as they are written and read.                                *)
(***************************************************************************)
MaxHoaLen == 4          \* pieces of text an input of from_hoa consists of

\* pieces of input text, separated by white space: "#" is a character no
\* token starts with
HoaChunks == {"HOA:", "v1", "--BODY--", "--END--", "--ABORT--", "#"}

HoaInputs == UNION {[1..k -> HoaChunks] : k \in 0..MaxHoaLen}

\* value.contains("--ABORT--")
ContainsAbort(value) == \E i \in 1..Len(value) : value[i] = "--ABORT--"

\* the alternatives of token: <<>> when none of them matches
Token(chunk) ==
    CASE chunk = "--ABORT--" -> <<"BodyEnd">>
      [] chunk = "--END--"   -> <<"BodyEnd">>
      [] chunk = "--BODY--"  -> <<"BodyStart">>
      [] chunk = "HOA:"      -> <<"Header:HOA">>
      [] chunk = "v1"        -> <<"Identifier:v1">>
      [] OTHER               -> <<>>

\* token.padded().repeated(): the tokens up to the first piece that is no
\* token; repeated() ends there without an error
RECURSIVE Tokens(_)
Tokens(value) ==
    IF value = <<>> \/ Token(Head(value)) = <<>> THEN <<>>
    ELSE Token(Head(value)) \o Tokens(Tail(value))

\* tokenizer().parse(input)
Tokenizer(value) == [ok |-> TRUE, tokens |-> Tokens(value)]

\* HoaRepresentation::parser(): a header, then a body closed by --END--
Parser(tokens) ==
    [ok |-> tokens = <<"Header:HOA", "Identifier:v1", "BodyStart", "BodyEnd">>]

\* from_hoa that looks for --ABORT-- only when the input did not parse
FromHoaAbortLast(value) ==
    LET lexed == Tokenizer(value)
    IN  IF ~lexed.ok THEN "LexerError"
        ELSE IF Parser(lexed.tokens).ok THEN "Ok"
        ELSE IF ContainsAbort(value) THEN "Abort"
        ELSE "ParserError"

\* from_hoa
FromHoa(value) ==
    LET lexed == Tokenizer(value)
    IN  IF ContainsAbort(value) THEN "Abort"
        ELSE IF ~lexed.ok THEN "LexerError"
        ELSE IF ~Parser(lexed.tokens).ok THEN "ParserError"
        ELSE "Ok"

\* the variants of Property and of AcceptanceName
Properties ==
    {"StateLabels", "TransLabels", "ImplicitLabels", "ExplicitLabels",
     "StateAcceptance", "TransitionAcceptance", "UniversalBranching",
     "NoUniversalBranching", "Deterministic", "Complete", "Unambiguous",
     "StutterInvariant", "Weak", "VeryWeak", "InherentlyWeak", "Terminal",
     "Tight", "Colored"}

AcceptanceNames ==
    {"Buchi", "GeneralizedBuchi", "CoBuchi", "GeneralizedCoBuchi", "Streett",
     "Rabin", "GeneralizedRabin", "Parity", "All", "None"}

\* impl Display for Property
DisplayProperty(v) ==
    CASE v = "StateLabels" -> "state-labels"
      [] v = "TransLabels" -> "trans-labels"
      [] v = "ImplicitLabels" -> "implicit-labels"
      [] v = "ExplicitLabels" -> "explicit-labels"
      [] v = "StateAcceptance" -> "state-acc"
      [] v = "TransitionAcceptance" -> "trans-acc"
      [] v = "UniversalBranching" -> "univ-branch"
      [] v = "NoUniversalBranching" -> "no-univ-branch"
      [] v = "Deterministic" -> "deterministic"
      [] v = "Complete" -> "complete"
      [] v = "Unambiguous" -> "unabmiguous"
      [] v = "StutterInvariant" -> "stutter-invariant"
      [] v = "Weak" -> "weak"
      [] v = "VeryWeak" -> "very-weak"
      [] v = "InherentlyWeak" -> "inherently-weak"
      [] v = "Terminal" -> "terminal"
      [] v = "Tight" -> "tight"
      [] v = "Colored" -> "colored"

\* impl Display for AcceptanceName
DisplayAcceptanceName(v) ==
    CASE v = "Buchi" -> "Buchi"
      [] v = "GeneralizedBuchi" -> "generalized-Buchi"
      [] v = "CoBuchi" -> "co-Buchi"
      [] v = "GeneralizedCoBuchi" -> "generalized-co-Buchi"
      [] v = "Streett" -> "Streett"
      [] v = "Rabin" -> "Rabin"
      [] v = "GeneralizedRabin" -> "generalized-Rabin"
      [] v = "Parity" -> "parity"
      [] v = "All" -> "all"
      [] v = "None" -> "none"

\* impl TryFrom<String> for AcceptanceName: <<"Ok", v>> or <<"Err">>
TryFromAcceptanceName(value) ==
    CASE value = "Buchi" -> <<"Ok", "Buchi">>
      [] value = "generalized-Buchi" -> <<"Ok", "GeneralizedBuchi">>
      [] value = "co-Buchi" -> <<"Ok", "CoBuchi">>
      [] value = "generalized-co-Buchi" -> <<"Ok", "GeneralizedCoBuchi">>
      [] value = "Streett" -> <<"Ok", "Streett">>
      [] value = "Rabin" -> <<"Ok", "Rabin">>
      [] value = "generalized-Rabin" -> <<"Ok", "GeneralizedRabin">>
      [] value = "parity" -> <<"Ok", "Parity">>
      [] value = "all" -> <<"Ok", "All">>
      [] value = "none" -> <<"Ok", "None">>
      [] OTHER -> <<"Err">>

\* impl TryFrom<String> for Property: <<"Ok", v>> or <<"Err">>
TryFromProperty(value) ==
    CASE value = "state-labels" -> <<"Ok", "StateLabels">>
      [] value = "trans-labels" -> <<"Ok", "TransLabels">>
      [] value = "implicit-labels" -> <<"Ok", "ImplicitLabels">>
      [] value = "explicit-labels" -> <<"Ok", "ExplicitLabels">>
      [] value = "state-acc" -> <<"Ok", "StateAcceptance">>
      [] value = "trans-acc" -> <<"Ok", "TransitionAcceptance">>
      [] value = "univ-branch" -> <<"Ok", "UniversalBranching">>
      [] value = "no-univ-branch" -> <<"Ok", "NoUniversalBranching">>
      [] value = "deterministic" -> <<"Ok", "Deterministic">>
      [] value = "complete" -> <<"Ok", "Complete">>
      [] value = "unambiguous" -> <<"Ok", "Unambiguous">>
      [] value = "stutter-invariant" -> <<"Ok", "StutterInvariant">>
      [] value = "weak" -> <<"Ok", "Weak">>
      [] value = "very-weak" -> <<"Ok", "VeryWeak">>
      [] value = "inherently-weak" -> <<"Ok", "InherentlyWeak">>
      [] value = "terminatl" -> <<"Ok", "Terminal">>
      [] value = "tight" -> <<"Ok", "Tight">>
      [] value = "colored" -> <<"Ok", "Colored">>
      [] OTHER -> <<"Err">>

InitHoa ==
    /\ mode = "hoa"
    /\ conf = Idle
    /\ strm = Idle
    /\ \/ \E value \in HoaInputs :
            hoa = [op |-> "from_hoa", value |-> value, text |-> <<>>,
                   out |-> <<>>]
       \/ \E v \in Properties :
            hoa = [op |-> "Property", value |-> v, text |-> <<>>,
                   out |-> <<>>]
       \/ \E v \in AcceptanceNames :
            hoa = [op |-> "AcceptanceName", value |-> v, text |-> <<>>,
                   out |-> <<>>]
    /\ norm = Idle /\ arg = Idle /\ ret = Idle /\ part = Idle
    /\ loop = Idle /\ shr = Idle
    /\ IdleSprout

\* the call from_hoa(value)
FromHoaCall ==
    /\ mode = "hoa"
    /\ hoa.op = "from_hoa" /\ hoa.out = <<>>
    /\ hoa' = [hoa EXCEPT !.out = <<FromHoa(hoa.value)>>]
    /\ UNCHANGED <<mode, sproutVars, dpaVars, loop, shr, strm, conf>>

\* value.to_string()
DisplayCall ==
    /\ mode = "hoa"
    /\ hoa.op \in {"Property", "AcceptanceName"} /\ hoa.text = <<>>
    /\ hoa' = [hoa EXCEPT !.text =
                <<IF hoa.op = "Property" THEN DisplayProperty(hoa.value)
                  ELSE DisplayAcceptanceName(hoa.value)>>]
    /\ UNCHANGED <<mode, sproutVars, dpaVars, loop, shr, strm, conf>>

\* try_from(text) for the text that was written
TryFromCall ==
    /\ mode = "hoa"
    /\ hoa.op \in {"Property", "AcceptanceName"}
    /\ hoa.text # <<>> /\ hoa.out = <<>>
    /\ hoa' = [hoa EXCEPT !.out =
                <<IF hoa.op = "Property" THEN TryFromProperty(hoa.text[1])
                  ELSE TryFromAcceptanceName(hoa.text[1])>>]
    /\ UNCHANGED <<mode, sproutVars, dpaVars, loop, shr, strm, conf>>

NextHoa == FromHoaCall \/ DisplayCall \/ TryFromCall

SpecHoa == InitHoa /\ [][NextHoa]_vars

\* C13: from_hoa classifies its failures: an input that contains --ABORT--
\* gives Abort whatever else it holds, an input the tokenizer rejects gives
\* LexerError, an input the parser rejects gives ParserError, and only an
\* input with none of these gives a representation.
C13_FromHoaClassifies ==
    (mode = "hoa" /\ hoa.op = "from_hoa" /\ hoa.out # <<>>) =>
        LET lexed == Tokenizer(hoa.value)
            out == hoa.out[1]
        IN  /\ ContainsAbort(hoa.value) => out = "Abort"
            /\ (~ContainsAbort(hoa.value) /\ ~lexed.ok) => out = "LexerError"
            /\ (~ContainsAbort(hoa.value) /\ lexed.ok
                    /\ ~Parser(lexed.tokens).ok) => out = "ParserError"
            /\ out = "Ok" =>
                    /\ ~ContainsAbort(hoa.value)
                    /\ lexed.ok /\ Parser(lexed.tokens).ok

\* Abort was returned for an input whose tokens, --ABORT-- read as the end
\* of the body, form a whole automaton
C13_Witness ==
    /\ mode = "hoa" /\ hoa.op = "from_hoa"
    /\ hoa.out = <<"Abort">>
    /\ Parser(Tokenizer(hoa.value).tokens).ok

\* C14: for every Property and every AcceptanceName, try_from of the text
\* that Display writes succeeds and returns the same value.
C14_NamesRoundTrip ==
    (mode = "hoa" /\ hoa.op \in {"Property", "AcceptanceName"}
            /\ hoa.out # <<>>) =>
        hoa.out[1] = <<"Ok", hoa.value>>

-----------------------------------------------------------------------------
(***************************************************************************)
(* streamlined: the normalized automaton, minimized as a Mealy machine.    *)
(***************************************************************************)
MaxRunLen == 2          \* length of the finite word whose last colour is read

\* last_edge_color(word): the colour of the last edge taken, None when the
\* word is empty or leaves the automaton
LastEdgeColor(dpa, w) ==
    IF w = <<>> THEN None
    ELSE LET q == ReachedStateIndexFrom(dpa, dpa.initial,
                                       SubSeq(w, 1, Len(w) - 1))
             last == IF q = None THEN {}
                     ELSE {e \in dpa.delta : e[1] = q /\ e[2] = w[Len(w)]}
         IN  IF last = {} THEN None ELSE (CHOOSE e \in last : TRUE)[3]

\* one refinement of a partition P (state |-> its block): two states stay
\* together when each symbol leads them into the same block
RefineBlocks(dpa, P) ==
    [q \in dpa.states |->
        {p \in P[q] : \A a \in Sigma :
            P[Successor(dpa, p, a)] = P[Successor(dpa, q, a)]}]

RECURSIVE RefineToFixpoint(_, _)
RefineToFixpoint(dpa, P) ==
    LET R == RefineBlocks(dpa, P)
    IN  IF R = P THEN P ELSE RefineToFixpoint(dpa, R)

\* mealy_partition_refinement: the quotient by the coarsest partition whose
\* blocks agree on the colour of every symbol and are closed under the
\* transitions; block i is the one with the i-th smallest least state
MealyPartitionRefinement(dpa) ==
    LET out(q) == {<<e[2], e[3]>> : e \in EdgesFrom(dpa, q)}
        P == RefineToFixpoint(dpa,
                [q \in dpa.states |-> {p \in dpa.states : out(p) = out(q)}])
        id(q) == Cardinality({Min(P[p]) : p \in dpa.states}
                                \cap 0..(Min(P[q]) - 1))
    IN  [states |-> {id(q) : q \in dpa.states},
         delta |-> {<<id(e[1]), e[2], e[3], id(e[4])>> : e \in dpa.delta},
         initial |-> id(dpa.initial)]

\* streamlined that returns the normalized automaton as it is
StreamlinedUnminimized(normalized) == normalized

\* streamlined, given self.normalized()
Streamlined(normalized) == MealyPartitionRefinement(normalized)

InitStreamlined ==
    /\ mode = "streamlined"
    /\ conf = Idle
    /\ hoa = Idle
    /\ \E dpa \in Dpas : \E w \in Words(MaxRunLen) :
        /\ norm = NormalizedStart(dpa)
        /\ strm = [dpa |-> dpa, word |-> w, before |-> <<>>, out |-> <<>>,
                   after |-> <<>>, pc |-> "call"]
    /\ arg = Idle /\ ret = Idle /\ part = Idle
    /\ loop = Idle /\ shr = Idle
    /\ IdleSprout

\* dpa.last_edge_color(word), on the automaton and then on the streamlined
\* one
LastEdgeColorCall ==
    /\ mode = "streamlined"
    /\ \/ /\ strm.pc = "call"
          /\ strm' = [strm EXCEPT
                        !.before = <<LastEdgeColor(strm.dpa, strm.word)>>,
                        !.pc = "streamlined"]
       \/ /\ strm.pc = "returned"
          /\ strm' = [strm EXCEPT
                        !.after = <<LastEdgeColor(strm.out[1], strm.word)>>,
                        !.pc = "done"]
    /\ UNCHANGED <<mode, sproutVars, dpaVars, loop, shr, hoa, conf>>

\* dpa.streamlined() returns once self.normalized() has
StreamlinedReturn ==
    /\ mode = "streamlined"
    /\ strm.pc = "streamlined"
    /\ norm.pc = "done"
    /\ strm' = [strm EXCEPT !.out = <<Streamlined(norm.out)>>,
                            !.pc = "returned"]
    /\ UNCHANGED <<mode, sproutVars, dpaVars, loop, shr, hoa, conf>>

NextStreamlined ==
    \/ LastEdgeColorCall
    \/ NormalizedRound
    \/ NormalizedBuild
    \/ StreamlinedReturn

SpecStreamlined == InitStreamlined /\ [][NextStreamlined]_vars

-----------------------------------------------------------------------------
(***************************************************************************)
(* The loop of dpainf.                                                     *)
(***************************************************************************)
\* the congruence c with the edge from q on a redirected to t
WithEdge(c, q, a, t) ==
    [c EXCEPT !.delta = {e \in @ : ~(e[1] = q /\ e[2] = a)}
                            \cup {<<q, a, Void, t>>}]

\* t is a class the inner loop tries as a target
IsCandidate(t) == input.allow \/ t # 0

\* every candidate below t was rejected for the edge from q on a
RejectedBelow(q, a, t) ==
    \A u \in 0..(t - 1) :
        IsCandidate(u) => ~AllConsistent(input, WithEdge(cong, q, a, u))

\* what a step of the inner loop does
SelectsSmallest ==
    /\ (pc = "check" /\ pc' = "outer") =>
            /\ cong' = cong
            /\ <<cur.source, cur.sym, Void, cur.target>> \in cong.delta
            /\ cur.target \in cong.states /\ IsCandidate(cur.target)
            /\ AllConsistent(input, cong)
            /\ RejectedBelow(cur.source, cur.sym, cur.target)
    /\ (pc = "check" /\ pc' = "for") =>
            /\ ~AllConsistent(input, cong)
            /\ cong'.delta =
                    cong.delta \ {<<cur.source, cur.sym, Void, cur.target>>}
            /\ cong'.states = cong.states
    /\ (pc = "for" /\ cong'.states # cong.states) =>
            /\ Successor(cong, cur.source, cur.sym) = None
            /\ RejectedBelow(cur.source, cur.sym, Size(cong))
            /\ cong'.states = cong.states \cup {Size(cong)}
            /\ cong'.delta = cong.delta
                    \cup {<<cur.source, cur.sym, Void, Size(cong)>>}

\* C17: for every popped (q, a) the edge that is kept leads to the existing
\* class of smallest creation id, epsilon excluded when it is disallowed,
\* for which the extended congruence is consistent with the primary check
\* and all additional constraints; a class is created only when every
\* candidate was tried and rejected; a rejected edge is removed again.
C17_SmallestConsistentTarget == [][SelectsSmallest]_vars

\* an edge from class 1 into class 1 was kept: epsilon was a candidate
\* and was rejected before
C17_Witness ==
    /\ mode = "sprout" /\ pc = "outer" /\ input.allow
    /\ \E a \in Sigma : <<1, a, Void, 1>> \in cong.delta

\* the pairs (q, a) for which q has no edge on a
MissingTransitions(c) ==
    {p \in c.states \X Sigma : Successor(c, p[1], p[2]) = None}

\* C18: the assertion on add_edge never fails: at the top of each outer
\* iteration the queue holds exactly the pairs (q, a) for which q has no
\* edge on a, each once, ordered by the creation id of q and then by the
\* alphabet.
C18_QueueIsMissingTransitions ==
    mode = "sprout" =>
        /\ result.kind # "Panic"
        /\ pc = "outer" => queue = SeqOfSet(MissingTransitions(cong))

\* the queue holds pairs of two classes
C18_Witness ==
    /\ mode = "sprout" /\ pc = "outer"
    /\ \E i, j \in 1..Len(queue) : queue[i][1] # queue[j][1]

\* C19: dpainf fails with Timeout only when the elapsed time exceeds the
\* timeout, Timeout carries the congruence built so far, and without a
\* timeout dpainf never returns Timeout.
C19_TimeoutOnlyWhenExceeded ==
    (mode = "sprout" /\ result.kind = "Timeout") =>
        /\ input.timeout # NoTimeout
        /\ elapsed > input.timeout * TicksPerSecond
        /\ result.cong = cong

\* C20: when transitions into epsilon are not allowed, no congruence that
\* dpainf builds, at any point or in any result, has an edge into epsilon.
C20_NoEdgeIntoEpsilon ==
    (mode = "sprout" /\ ~input.allow) =>
        /\ \A e \in cong.delta : e[4] # 0
        /\ \A e \in result.cong.delta : e[4] # 0

\* a call that may not lead into epsilon has returned two or more classes
C20_Witness ==
    /\ mode = "sprout" /\ ~input.allow
    /\ pc = "done" /\ result.kind = "Ok"
    /\ Size(result.cong) >= 2
    /\ \A q \in result.cong.states : \A a \in Sigma :
            Successor(result.cong, q, a) # None

\* C27: whenever dpainf fails with Threshold(~, k), k is the threshold of
\* the primary check, ~ has exactly k + 1 classes, and the transition that
\* was being processed has no edge in ~.
C27_ThresholdResult ==
    (mode = "sprout" /\ result.kind = "Threshold") =>
        /\ result.threshold = Threshold(input.primary)
        /\ Size(result.cong) = result.threshold + 1
        /\ Successor(result.cong, cur.source, cur.sym) = None

\* Threshold was returned for a threshold of at least 2, while the
\* transition of a class other than epsilon was processed and every class
\* it could lead to had been rejected
C27_Witness ==
    /\ mode = "sprout" /\ result.kind = "Threshold"
    /\ Threshold(input.primary) >= 2
    /\ cur.source # 0
    /\ \A t \in result.cong.states \ {0} :
          ~AllConsistent(input,
                         WithEdge(result.cong, cur.source, cur.sym, t))

\* the outer iterations begun so far: the pairs enqueued and taken out
OuterIterations == Size(cong) * AlphaSize - Len(queue)

\* C28: dpainf always terminates, also without a timeout: it runs at most
\* (threshold + 1) * |Sigma| outer iterations and then returns Ok or
\* Threshold.
C28_Terminates ==
    /\ [](mode = "sprout" =>
            /\ OuterIterations <= (Threshold(input.primary) + 1) * AlphaSize
            /\ (pc = "done" /\ input.timeout = NoTimeout) =>
                    result.kind \in {"Ok", "Threshold"})
    /\ (mode = "sprout" /\ pc # "done") ~> (pc = "done")

\* a call without timeout has returned after it added a class
C28_Witness ==
    /\ mode = "sprout" /\ pc = "done" /\ input.timeout = NoTimeout
    /\ Size(result.cong) >= 2

-----------------------------------------------------------------------------
(***************************************************************************)
(* The peeling loop of normalized.                                         *)
(***************************************************************************)
\* the transitions of an automaton without their colours
Shape(delta) == {<<e[1], e[2], e[4]>> : e \in delta}

\* C25: normalized() returns an automaton with the states, the initial
\* state and the transitions of the input, only the colours differ; when
\* the loop ends every edge of the input has an entry in the recolouring,
\* so the lookup of the reassembly never fails.
C25_NormalizedFrame ==
    mode = "normalized" =>
        /\ norm.pc # "panic"
        /\ norm.pc = "build" =>
                \A e \in norm.dpa.delta :
                    FindRecoloring(norm.recoloring, e[1], e[2]) # None
        /\ norm.pc = "done" =>
                /\ norm.out.states = norm.dpa.states
                /\ norm.out.initial = norm.dpa.initial
                /\ Shape(norm.out.delta) = Shape(norm.dpa.delta)
                /\ Cardinality(norm.out.delta) = Cardinality(norm.dpa.delta)

\* a two-state automaton was returned with a colour changed
C25_Witness ==
    /\ mode = "normalized" /\ norm.pc = "done"
    /\ Cardinality(norm.dpa.states) = 2
    /\ norm.out.delta # norm.dpa.delta

\* what a round of the loop does
PeelingRound ==
    (mode = "normalized" /\ norm.pc = "loop") =>
        /\ norm'.priority # norm.priority =>
                /\ norm'.priority = norm.priority + 1
                /\ norm'.remove_edges = {}
        /\ (norm'.pc = "loop" /\ norm.priority > 0
                /\ norm.remove_edges = {} /\ norm.remove_states = {}) =>
                (norm'.remove_edges # {} \/ norm'.remove_states # {})
        /\ norm'.pc = "build" => norm'.ts.states = {}
        /\ norm'.pc \in {"loop", "build"}

\* C29: the peeling loop of normalized() terminates: of two consecutive
\* rounds at least one schedules an edge or a state for removal, the
\* priority advances only after a round that scheduled no edge, and the
\* loop ends with the working copy empty.
C29_PeelingTerminates ==
    /\ [][PeelingRound]_vars
    /\ (mode = "normalized" /\ norm.pc = "loop") ~> (norm.pc = "done")

\* the loop has ended after the priority advanced twice
C29_Witness ==
    /\ mode = "normalized" /\ norm.pc = "done"
    /\ norm.priority >= 2

\* the colour the input gives the edge from q on a
ColorOf(dpa, q, a) ==
    (CHOOSE e \in dpa.delta : e[1] = q /\ e[2] = a)[3]

\* C30: normalized() never raises a priority: the colour of every edge in
\* the result is at most its colour in the input, and at every round the
\* edges interior to a non-transient component of the working copy have
\* colours at least the current priority.
C30_NeverRaisesPriority ==
    mode = "normalized" =>
        /\ norm.pc = "loop" =>
            LET ts == Drained(norm.ts, norm.remove_edges, norm.remove_states)
            IN  \A scc \in Sccs(ts) : \A e \in InteriorEdges(ts, scc) :
                    e[3] >= norm.priority
        /\ norm.pc = "done" =>
            \A e \in norm.out.delta : e[3] <= ColorOf(norm.dpa, e[1], e[2])

\* an edge of colour 3 of a returned automaton has colour 1
C30_Witness ==
    /\ mode = "normalized" /\ norm.pc = "done"
    /\ \E e \in norm.out.delta :
            e[3] = 1 /\ ColorOf(norm.dpa, e[1], e[2]) = 3

\* the automata with the transitions of dpa and any colours
Recolorings(dpa) ==
    {[dpa EXCEPT !.delta = {<<e[1], e[2], f[<<e[1], e[2]>>], e[4]>> : e \in @}] :
        f \in [{<<e[1], e[2]>> : e \in dpa.delta} -> Colors]}

\* C24: normalized() yields minimal priorities: among all recolourings of
\* the same transitions that accept the same language, the result uses the
\* fewest distinct priorities and the smallest maximal priority.
C24_NormalizedMinimal ==
    (mode = "normalized" /\ norm.pc = "done") =>
        \A B \in Recolorings(norm.dpa) :
            SameLanguage(norm.dpa, B) =>
                /\ Cardinality(ColorsOf(norm.out)) <= Cardinality(ColorsOf(B))
                /\ Max(ColorsOf(norm.out)) <= Max(ColorsOf(B))

-----------------------------------------------------------------------------
(***************************************************************************)
(* Conflict relations: ConflictRelation::consistent, and the conflict sets *)
(* of prefix consistency and of iteration consistency.                     *)
(***************************************************************************)
MaxAccessLen == 5       \* length of the words that reach a product state

MaxClasses == 2         \* classes of a congruence, states of an automaton

\* prefix trees of one word, and of the two words a x^omega and b y^omega
SampleTrees ==
    PrefixTrees \cup
        {[states |-> 0..2,
          delta |-> {<<0, 1, Void, 1>>, <<0, 2, Void, 2>>,
                     <<1, x, Void, 1>>, <<2, y, Void, 2>>}] : x, y \in Sigma}

\* a conflict relation with the given automata and conflict set
ConflictRelationOf(left, right, conflicts) ==
    [kind |-> "conflict", pos |-> {}, neg |-> {},
     dfas |-> <<left, right>>, conflicts |-> conflicts]

\* predecessors(q): the edges into q
Predecessors(ts, q) == {e \in ts.delta : e[4] = q}

\* the pairs of sources of a set of pairs of edges, in the order of the two
\* nested loops: the edges into left in the order of their (source,
\* expression), and for each of them the edges into right in that order
SourcePairs(S) ==
    LET Key(p) == <<p[1][1], p[1][2], p[2][1], p[2][2]>>
        Less(x, y) ==
            \E i \in 1..4 :
                /\ Key(x)[i] < Key(y)[i]
                /\ \A j \in 1..(i - 1) : Key(x)[j] = Key(y)[j]
    IN  [i \in 1..Cardinality(S) |->
            LET t == CHOOSE t \in S :
                        Cardinality({u \in S : Less(u, t)}) = i - 1
            IN  <<t[1][1], t[2][1]>>]

\* the pushed pairs, without the comparison of the expressions
PushedPairsAnySymbol(left_pta, right_pta, left, right) ==
    SourcePairs(Predecessors(left_pta, left)
                    \X Predecessors(right_pta, right))

\* the pairs pushed for (left, right): for every edge l into left, and for
\* every edge into right that carries the expression of l, the two sources
PushedPairs(left_pta, right_pta, left, right) ==
    SourcePairs({p \in Predecessors(left_pta, left)
                           \X Predecessors(right_pta, right) :
                    p[2][2] = p[1][2]})

ConflictCall(op, left, right, conflicts, c, acc) ==
    [op |-> op, left |-> left, right |-> right, conflicts |-> conflicts,
     cong |-> c, accepting |-> acc, queue |-> SeqOfSet(acc[1] \X acc[2]),
     expanded |-> <<>>, out |-> <<>>, pc |-> "call"]

InitConflicts ==
    /\ mode = "conflicts"
    /\ hoa = Idle /\ strm = Idle
    /\ \/ \E left, right \in SampleTrees :
          \E x \in {{}} \cup {{p} : p \in left.states \X right.states} :
          \E c \in UNION {PartialDts(n) : n \in 1..MaxClasses} :
            conf = ConflictCall("consistent", left, right, x, c,
                                <<{}, {}>>)
       \/ \E left, right \in SampleTrees :
            conf = ConflictCall("prefix", left, right, {}, EmptyTs,
                                <<{}, {}>>)
    /\ norm = Idle /\ arg = Idle /\ ret = Idle /\ part = Idle
    /\ loop = Idle /\ shr = Idle
    /\ IdleSprout

\* before the closure of iteration_consistency_conflicts: nothing built yet
InitClosure ==
    /\ mode = "conflicts"
    /\ hoa = Idle /\ strm = Idle
    /\ conf = [ConflictCall("iteration", EmptyTs, EmptyTs, {}, EmptyTs,
                            <<{}, {}>>) EXCEPT !.pc = "start"]
    /\ norm = Idle /\ arg = Idle /\ ret = Idle /\ part = Idle
    /\ loop = Idle /\ shr = Idle
    /\ IdleSprout

\* the two automata are built, all of their states reached from state 0;
\* the conflict set is empty and the queue holds the pairs of their
\* accepting states
IterationStart ==
    /\ mode = "conflicts"
    /\ conf.op = "iteration" /\ conf.pc = "start"
    /\ \E left, right \in
            {ts \in UNION {PartialDts(n) : n \in 1..MaxClasses} :
                ReachableFrom(ts, {0}) = ts.states} :
       \E la \in (SUBSET left.states) \ {{}} :
       \E ra \in (SUBSET right.states) \ {{}} :
            conf' = ConflictCall("iteration", left, right, {}, EmptyTs,
                                 <<la, ra>>)
    /\ UNCHANGED <<mode, sproutVars, dpaVars, loop, shr, hoa, strm>>

\* the call relation.consistent(cong)
ConsistentCall ==
    /\ mode = "conflicts"
    /\ conf.op = "consistent" /\ conf.pc = "call"
    /\ conf' = [conf EXCEPT
            !.out = <<ConflictConsistent(
                        ConflictRelationOf(conf.left, conf.right,
                                           conf.conflicts), conf.cong)>>,
            !.pc = "done"]
    /\ UNCHANGED <<mode, sproutVars, dpaVars, loop, shr, hoa, strm>>

\* the call prefix_consistency_conflicts, from the two prefix trees on
PrefixConflictsCall ==
    /\ mode = "conflicts"
    /\ conf.op = "prefix" /\ conf.pc = "call"
    /\ conf' = [conf EXCEPT
            !.conflicts =
                PrefixConsistencyConflicts(conf.left, conf.right).conflicts,
            !.pc = "done"]
    /\ UNCHANGED <<mode, sproutVars, dpaVars, loop, shr, hoa, strm>>

\* one iteration of the closure of iteration_consistency_conflicts
IterationPop ==
    /\ mode = "conflicts"
    /\ conf.op = "iteration" /\ conf.pc = "call"
    /\ conf.queue # <<>>
    /\ LET pair == Head(conf.queue)
       IN  IF pair \in conf.conflicts
           THEN conf' = [conf EXCEPT !.queue = Tail(@)]
           ELSE conf' = [conf EXCEPT
                    !.conflicts = @ \cup {pair},
                    !.expanded = Append(@, pair),
                    !.queue = Tail(@) \o PushedPairs(conf.left, conf.right,
                                                    pair[1], pair[2])]
    /\ UNCHANGED <<mode, sproutVars, dpaVars, loop, shr, hoa, strm>>

\* old_to_new(q) of into_dts_preserving_and_initial: the states keep their
\* order and are numbered from 0; None for a state the automaton lacks
OldToNew(ts, q) ==
    IF q \in ts.states THEN Cardinality({p \in ts.states : p < q}) ELSE None

\* the queue is empty: both automata are renumbered, every conflict is
\* mapped to the new numbers (a state without new number panics) and the
\* relation of the renumbered automata and the mapped conflicts is returned
IterationReturn ==
    /\ mode = "conflicts"
    /\ conf.op = "iteration" /\ conf.pc = "call"
    /\ conf.queue = <<>>
    /\ LET Renumbered(ts) ==
               [states |-> {OldToNew(ts, q) : q \in ts.states},
                delta |-> {<<OldToNew(ts, e[1]), e[2], Void,
                             OldToNew(ts, e[4])>> : e \in ts.delta}]
           conflicts == {<<OldToNew(conf.left, c[1]),
                           OldToNew(conf.right, c[2])>> :
                            c \in conf.conflicts}
       IN  IF \E c \in conflicts : c[1] = None \/ c[2] = None
           THEN conf' = [conf EXCEPT !.pc = "panic"]
           ELSE conf' = [conf EXCEPT
                    !.conflicts = conflicts,
                    !.out = <<ConflictRelationOf(Renumbered(conf.left),
                                                 Renumbered(conf.right),
                                                 conflicts)>>,
                    !.pc = "done"]
    /\ UNCHANGED <<mode, sproutVars, dpaVars, loop, shr, hoa, strm>>

NextConflicts ==
    \/ ConsistentCall
    \/ PrefixConflictsCall

SpecConflicts == InitConflicts /\ [][NextConflicts]_vars

NextClosure ==
    \/ IterationStart
    \/ IterationPop
    \/ IterationReturn

\* the closure under the scheduling of a sequential program
FairClosure ==
    /\ InitClosure /\ [][NextClosure]_vars
    /\ WF_vars(IterationPop \/ IterationReturn)

\* the (class, state) pairs that finite words reach in cong and in dfa
ReachedByWords(c, dfa) ==
    {<<ReachedStateIndexFrom(c, 0, w), ReachedStateIndexFrom(dfa, 0, w)>> :
        w \in Words(MaxAccessLen)}

\* two finite words reach the same class, and a conflicting pair of states
ConflictingWords ==
    \E u \in ReachedByWords(conf.cong, conf.left) :
    \E v \in ReachedByWords(conf.cong, conf.right) :
        /\ u[1] # None
        /\ u[1] = v[1]
        /\ <<u[2], v[2]>> \in conf.conflicts

\* C21: consistent(cong) returns false exactly when two finite words u
\* and v reach the same class of cong while u reaches l in the left
\* automaton, v reaches r in the right one and (l, r) is a conflict.
C21_ConsistentByWords ==
    (mode = "conflicts" /\ conf.op = "consistent" /\ conf.pc = "done") =>
        (conf.out = <<FALSE>> <=> ConflictingWords)

\* an inconsistent congruence with two classes: the conflicting states are
\* reached in its second class only
C21_Witness ==
    /\ mode = "conflicts" /\ conf.op = "consistent" /\ conf.pc = "done"
    /\ conf.out = <<FALSE>>
    /\ conf.cong.states = {0, 1}
    /\ \A u \in ReachedByWords(conf.cong, conf.left) :
       \A v \in ReachedByWords(conf.cong, conf.right) :
          (u[1] = v[1] /\ <<u[2], v[2]>> \in conf.conflicts) => u[1] = 1

\* some word of n symbols has a run from l in left and from r in right
CommonRun(left, right, l, r, n) ==
    \E w \in [1..n -> Sigma] :
        /\ ReachedStateIndexFrom(left, l, w) # None
        /\ ReachedStateIndexFrom(right, r, w) # None

\* C22: the conflict set of prefix_consistency_conflicts holds a pair
\* (l, r), reachable together or not, exactly when a state on a cycle of
\* the product is reachable from it, that is when some word longer than
\* the product has runs from l and from r; the set is closed under
\* predecessors on a common symbol.
C22_PrefixConflicts ==
    (mode = "conflicts" /\ conf.op = "prefix" /\ conf.pc = "done") =>
        LET dfa == TsProduct(conf.left, conf.right)
        IN  /\ conf.conflicts \subseteq dfa.states
            /\ \A s \in dfa.states :
                  /\ s \in conf.conflicts
                        <=> \E t \in ReachableFrom(dfa, {s}) :
                                t \in ReachableFrom(dfa,
                                    {e[4] : e \in EdgesFrom(dfa, t)})
                  /\ s \in conf.conflicts
                        <=> CommonRun(conf.left, conf.right, s[1], s[2],
                                      Cardinality(dfa.states))
            /\ \A l \in conf.left.delta : \A r \in conf.right.delta :
                  (l[2] = r[2] /\ <<l[4], r[4]>> \in conf.conflicts)
                      => <<l[1], r[1]>> \in conf.conflicts

\* a conflict set with a pair that is not reachable together, a pair off
\* every cycle, and a pair of states left out
C22_Witness ==
    /\ mode = "conflicts" /\ conf.op = "prefix" /\ conf.pc = "done"
    /\ LET dfa == TsProduct(conf.left, conf.right)
       IN  /\ conf.conflicts \ ReachableFrom(dfa, {<<0, 0>>}) # {}
           /\ conf.conflicts \ OnCycle(dfa) # {}
           /\ dfa.states \ conf.conflicts # {}

\* the least set that contains S and every pair of sources of two edges
\* with the same expression into a pair of the set
RECURSIVE LeastClosed(_, _, _)
LeastClosed(left, right, S) ==
    LET N == S \cup {<<p[1][1], p[2][1]>> :
                 p \in {p \in left.delta \X right.delta :
                           /\ p[1][2] = p[2][2]
                           /\ <<p[1][4], p[2][4]>> \in S}}
    IN  IF N = S THEN S ELSE LeastClosed(left, right, N)

\* C23: the closure of iteration_consistency_conflicts terminates; it
\* yields the least set that contains the pairs of accepting states and is
\* closed under predecessors on a common expression (in the numbering of
\* the returned automata), and it expands every pair at most once.
C23_Closure ==
    (mode = "conflicts" /\ conf.op = "iteration" /\ conf.pc = "call")
        ~> /\ conf.pc = "done"
           /\ conf.out[1].conflicts =
                  {<<OldToNew(conf.left, p[1]), OldToNew(conf.right, p[2])>> :
                      p \in LeastClosed(conf.left, conf.right,
                                conf.accepting[1] \X conf.accepting[2])}
           /\ conf.out[1].conflicts =
                  LeastClosed(conf.out[1].dfas[1], conf.out[1].dfas[2],
                      {<<OldToNew(conf.left, p[1]),
                         OldToNew(conf.right, p[2])>> :
                          p \in conf.accepting[1] \X conf.accepting[2]})
           /\ \A i, j \in 1..Len(conf.expanded) :
                  conf.expanded[i] = conf.expanded[j] => i = j

\* a finished closure that added pairs to the accepting ones, left pairs
\* out, and met a pair a second time
C23_Witness ==
    /\ mode = "conflicts" /\ conf.op = "iteration" /\ conf.pc = "done"
    /\ conf.conflicts \ (conf.accepting[1] \X conf.accepting[2]) # {}
    /\ (conf.left.states \X conf.right.states) \ conf.conflicts # {}
    /\ \E l \in conf.left.delta : \E r \in conf.right.delta :
          l[1] = l[4] /\ r[1] = r[4] /\ l[2] = r[2]
              /\ <<l[1], r[1]>> \in conf.conflicts

-----------------------------------------------------------------------------
(***************************************************************************)
(* Witnesses of non-emptiness and of non-universality: witness_color,      *)
(* give_accepted_word and give_rejected_word.                              *)
(***************************************************************************)
NoWord == [kind |-> "none", spoke |-> <<>>, cycle |-> <<>>]

\* ReducedOmegaWord::ultimately_periodic(spoke, cycle): the canonical form
\* of spoke cycle^omega. The cycle is replaced by its primitive root, and
\* as long as the spoke ends with the last symbol of the cycle that symbol
\* is dropped from the spoke and the cycle is rotated by one.
UltimatelyPeriodic(spoke, cycle) ==
    LET n == Len(cycle)
        d == Min({k \in 1..n :
                    /\ n % k = 0
                    /\ \A i \in 1..n : cycle[i] = cycle[((i - 1 + k) % n) + 1]})
        \* the last symbol of the root after i - 1 rotations
        Last(i) == cycle[((i * (d - 1)) % d) + 1]
        rolled == Max({j \in 0..Len(spoke) :
                        \A i \in 1..j : spoke[Len(spoke) - i + 1] = Last(i)})
    IN  [kind |-> "some",
         spoke |-> SubSeq(spoke, 1, Len(spoke) - rolled),
         cycle |-> [m \in 1..d |->
                        cycle[((m - 1 + rolled * (d - 1)) % d) + 1]]]

\* witness_color(color): the first non-transient component of the
\* automaton restricted to the colours from color on that has color on an
\* interior edge; the word is the canonical form of its minimal
\* representative followed by the walk of maximal_loop_from; the call panics when the component has no
\* representative
WitnessColor(dpa, color) ==
    LET restrict == EdgeColorRestricted(IntoDts(dpa), color, IntMax)
        hits == {scc \in Sccs(restrict) :
                    /\ ~IsTransient(restrict, scc)
                    /\ color \in InteriorEdgeColors(restrict, scc)}
    IN  IF hits = {} THEN NoWord
        ELSE LET scc == CHOOSE c \in hits :
                            \A d \in hits : Min(c) <= Min(d)
             IN  IF ~HasMinimalRepresentative(restrict, dpa.initial, scc)
                 THEN [NoWord EXCEPT !.kind = "panic"]
                 ELSE LET reps == {w \in Words(MaxDpaStates - 1) :
                                ReachedStateIndexFrom(restrict, dpa.initial,
                                                      w) \in scc}
                          rep == CHOOSE w \in reps : \A v \in reps :
                                    \/ Len(w) < Len(v)
                                    \/ Len(w) = Len(v) /\
                                         (w = <<>> \/ w[1] <= v[1])
                          from == ReachedStateIndexFrom(restrict,
                                                        dpa.initial, rep)
                          cycle == MaximalLoopFrom(restrict, scc, from)
                      IN  UltimatelyPeriodic(rep, cycle)

\* give_accepted_word: the first even colour, in the order of colors(),
\* that has a witness
GiveAcceptedWord(dpa) ==
    LET edges == SeqOfSet(dpa.delta)
        found == {i \in 1..Len(edges) :
                    /\ edges[i][3] % 2 = 0
                    /\ WitnessColor(dpa, edges[i][3]).kind # "none"}
    IN  IF found = {} THEN NoWord
        ELSE WitnessColor(dpa, edges[Min(found)][3])

\* give_rejected_word: the first odd colour that has a witness
GiveRejectedWord(dpa) ==
    LET edges == SeqOfSet(dpa.delta)
        found == {i \in 1..Len(edges) :
                    /\ edges[i][3] % 2 = 1
                    /\ WitnessColor(dpa, edges[i][3]).kind # "none"}
    IN  IF found = {} THEN NoWord
        ELSE WitnessColor(dpa, edges[Min(found)][3])

InitWitness ==
    /\ mode = "witness"
    /\ conf = Idle
    /\ hoa = Idle /\ strm = Idle
    /\ arg \in Dpas
    /\ ret = [accepted |-> <<>>, rejected |-> <<>>]
    /\ norm = Idle /\ part = Idle
    /\ loop = Idle /\ shr = Idle
    /\ IdleSprout

\* the call arg.give_accepted_word()
GiveAcceptedWordCall ==
    /\ mode = "witness"
    /\ ret.accepted = <<>>
    /\ ret' = [ret EXCEPT !.accepted = <<GiveAcceptedWord(arg)>>]
    /\ UNCHANGED <<mode, sproutVars, norm, arg, part, loop, shr, hoa, strm,
                   conf>>

\* the call arg.give_rejected_word()
GiveRejectedWordCall ==
    /\ mode = "witness"
    /\ ret.rejected = <<>>
    /\ ret' = [ret EXCEPT !.rejected = <<GiveRejectedWord(arg)>>]
    /\ UNCHANGED <<mode, sproutVars, norm, arg, part, loop, shr, hoa, strm,
                   conf>>

NextWitness ==
    \/ GiveAcceptedWordCall
    \/ GiveRejectedWordCall

SpecWitness == InitWitness /\ [][NextWitness]_vars

\* some ultimately periodic word is accepted, or rejected, by the automaton
\* (a cycle of at most as many symbols as there are states behind a spoke
\* shorter than that decides it)
SomeWord(dpa, accepted) ==
    \E u \in Words(MaxDpaStates - 1) :
    \E v \in Words(MaxDpaStates) \ {<<>>} :
        Accepts(dpa, u, v) = accepted

\* C26: give_accepted_word returns a word exactly when the automaton
\* accepts an ultimately periodic word, and the word is accepted;
\* give_rejected_word returns a word exactly when the automaton rejects
\* one, and the word is rejected; neither call panics, also when the cycle
\* of the witness is reached only through edges of lower priority.
C26_WitnessWords ==
    mode = "witness" =>
        /\ ret.accepted # <<>> =>
              /\ ret.accepted[1].kind # "panic"
              /\ ret.accepted[1].kind = "some" <=> SomeWord(arg, TRUE)
              /\ ret.accepted[1].kind = "some" =>
                    Accepts(arg, ret.accepted[1].spoke,
                            ret.accepted[1].cycle)
        /\ ret.rejected # <<>> =>
              /\ ret.rejected[1].kind # "panic"
              /\ ret.rejected[1].kind = "some" <=> SomeWord(arg, FALSE)
              /\ ret.rejected[1].kind = "some" =>
                    ~Accepts(arg, ret.rejected[1].spoke,
                             ret.rejected[1].cycle)

-----------------------------------------------------------------------------
(***************************************************************************)
(* Scenarios.                                                              *)
(***************************************************************************)
\* S1: the call of dpainf on the prefix-consistency conflicts of the sample
\* with the positive word a^omega and the negative word b^omega, without
\* additional constraints or timeout, transitions into epsilon allowed
S1Input ==
    [primary |-> PrefixConsistencyConflicts(LassoPta(<<1>>, 0),
                                            LassoPta(<<2>>, 0)),
     extra |-> <<>>, allow |-> TRUE, timeout |-> NoTimeout]

\* C15: in scenario S1 the edge (epsilon, a, epsilon) is kept, no existing
\* class is a consistent target for (epsilon, b), and the congruence that
\* is returned has exactly 2 classes.
C15_S1 ==
    (mode = "sprout" /\ input = S1Input /\ pc = "done") =>
        /\ result.kind = "Ok"
        /\ <<0, 1, Void, 0>> \in result.cong.delta
        /\ <<0, 2, Void, 0>> \notin result.cong.delta
        /\ Size(result.cong) = 2

\* C15, amended: in scenario S1 the conflict relation is empty, both
\* (epsilon, a, epsilon) and (epsilon, b, epsilon) are kept, and the
\* congruence that is returned has exactly 1 class.
C15_S1_Amended ==
    (mode = "sprout" /\ input = S1Input) =>
        /\ input.primary.conflicts = {}
        /\ pc = "done" =>
            /\ result.kind = "Ok"
            /\ result.cong = [states |-> {0},
                              delta |-> {<<0, 1, Void, 0>>, <<0, 2, Void, 0>>}]

\* the call of S1 has returned
C15_Witness ==
    /\ mode = "sprout" /\ input = S1Input /\ pc = "done"
    /\ result.kind = "Ok"

\* S3 as the specification writes it
S3Written ==
    [states |-> {0, 1},
     delta |-> {<<0, 1, 0, 0>>, <<0, 2, 1, 1>>, <<1, 1, 0, 0>>, <<1, 2, 3, 0>>},
     initial |-> 0]

\* S3 as the example of streamlined builds it: the a-edge of 0 leads to 1
S3Example ==
    [states |-> {0, 1},
     delta |-> {<<0, 1, 0, 1>>, <<0, 2, 1, 1>>, <<1, 1, 0, 0>>, <<1, 2, 3, 0>>},
     initial |-> 0]

\* C16: in scenario S3, for the automaton 0-a/0->0, 0-b/1->1, 1-a/0->0,
\* 1-b/3->0, last_edge_color("ab") is 3 before, and the streamlined
\* automaton has exactly 1 state and last_edge_color("ab") = 1.
C16_S3 ==
    (mode = "streamlined" /\ strm.dpa = S3Written /\ strm.word = <<1, 2>>
            /\ strm.pc = "done") =>
        /\ strm.before = <<3>>
        /\ Cardinality(strm.out[1].states) = 1
        /\ strm.after = <<1>>

\* C16, amended: for the automaton 0-a/0->1, 0-b/1->1, 1-a/0->0, 1-b/3->0,
\* last_edge_color("ab") is 3 before, and the streamlined automaton has
\* exactly 1 state and last_edge_color("ab") = 1; for the automaton as
\* written, last_edge_color("ab") is 1 before and after.
C16_S3_Amended ==
    (mode = "streamlined" /\ strm.word = <<1, 2>> /\ strm.pc = "done") =>
        /\ strm.dpa = S3Example =>
            /\ strm.before = <<3>>
            /\ Cardinality(strm.out[1].states) = 1
            /\ strm.after = <<1>>
        /\ strm.dpa = S3Written =>
            /\ strm.before = <<1>>
            /\ Cardinality(strm.out[1].states) = 1
            /\ strm.after = <<1>>

\* streamlined has returned for the automaton of the example and the
\* colour of "ab" was read from the result
C16_Witness ==
    /\ mode = "streamlined" /\ strm.dpa = S3Example /\ strm.word = <<1, 2>>
    /\ strm.pc = "done" /\ strm.after # <<>>

====
